---- MODULE Spec2Model ----
(***************************************************************************)
(* budget-tracker-mobile: the persistence service (DatabaseService over    *)
(* AsyncStorage) with the transaction ledger, the budget goal store, the   *)
(* category registry, the statistics engine and the alert evaluator.       *)
(*                                                                         *)
(* A date-only string "YYYY-MM-DD" is the tuple <<y, m, d>>.  A number is  *)
(* a binary floating-point value with integer payload: every addition is   *)
(* rounded to SigBits significant bits, to nearest, ties to even, as       *)
(* IEEE-754 binary64 does with 53 bits.  Instants are seconds since        *)
(* 1970-01-01T00:00:00Z.  Names are non-empty strings.  An operation is    *)
(* awaited before the next one starts, except the calls held in calls,     *)
(* which run one store access at a time.                                   *)
(***************************************************************************)
EXTENDS Integers, Sequences, FiniteSets, TLC

VARIABLES
  store,     \* AsyncStorage: the three keys of the service
  tzOffset,  \* the device's time zone: minutes local time is ahead of UTC
  nextId,    \* per collection, the number of the next generated id: the clock of Date.now()
  last,      \* the last operation: its name, its outcome and what it returned or threw
  calls,     \* the calls of the service started and not yet settled, each at its next store access
  refreshTrigger,  \* DataProvider: the counter of refresh signals
  screens    \* the mounted screens: what each shows and the refreshTrigger it was loaded for

vars == <<store, tzOffset, nextId, last, calls, refreshTrigger, screens>>

(***************************************************************************)
(* Bounds of the model.                                                    *)
(***************************************************************************)
MaxTx == 2        \* transactions added in one behaviour
MaxGoals == 1     \* goals added in one behaviour
MaxCats == 1      \* categories added in one behaviour
MaxLedger == 3    \* transactions added in one behaviour of the ledger specification
MaxStats == 3     \* transactions added in one behaviour of the statistics specification
MaxGoalStore == 3   \* goals added in one behaviour of the goal store specification
MaxScreenCats == 2  \* categories added in one behaviour of the screen specification
MaxAlertGoals == 2  \* goals added in one behaviour of the alert specification
SigBits == 12     \* significand width of a number (binary64: 53)

UNDEFINED == "undefined"

\* A field of a Partial<T>: <<>> when the field is not given, <<v>> when it is v.
NotGiven == <<>>
Given(v) == <<v>>
OrElse(field, default) == IF field = <<>> THEN default ELSE field[1]

(***************************************************************************)
(* JavaScript numbers.                                                     *)
(***************************************************************************)
RECURSIVE Pow2(_)
Pow2(n) == IF n = 0 THEN 1 ELSE 2 * Pow2(n - 1)

Abs(x) == IF x < 0 THEN -x ELSE x

\* The spacing of the representable numbers at magnitude x.
RECURSIVE Ulp(_)
Ulp(x) == IF x < Pow2(SigBits) THEN 1 ELSE 2 * Ulp(x \div 2)

\* Round to nearest representable number, ties to even.
RoundNearestEven(x) ==
  LET a == Abs(x)
      q == Ulp(a)
      lo == (a \div q) * q
      rem == a - lo
      up == \/ 2 * rem > q
            \/ 2 * rem = q /\ (lo \div q) % 2 = 1
      r == IF up THEN lo + q ELSE lo
  IN IF x < 0 THEN -r ELSE r

\* a + b and a - b on numbers.
NumAdd(a, b) == RoundNearestEven(a + b)
NumSub(a, b) == RoundNearestEven(a - b)

(***************************************************************************)
(* Dates: new Date("YYYY-MM-DD") is UTC midnight of that day, and          *)
(* new Date(y, m, d, h, mi, s) is that wall-clock time in the device zone. *)
(***************************************************************************)
IsLeap(y) == (y % 4 = 0 /\ y % 100 # 0) \/ y % 400 = 0

DaysInMonth(y, m) ==
  IF m = 2 THEN (IF IsLeap(y) THEN 29 ELSE 28)
  ELSE IF m \in {4, 6, 9, 11} THEN 30 ELSE 31

RECURSIVE DaysBeforeMonth(_, _)
DaysBeforeMonth(y, m) ==
  IF m = 1 THEN 0 ELSE DaysBeforeMonth(y, m - 1) + DaysInMonth(y, m - 1)

LeapsBefore(y) == ((y - 1) \div 4) - ((y - 1) \div 100) + ((y - 1) \div 400)

DaysBeforeYear(y) == 365 * (y - 1970) + LeapsBefore(y) - LeapsBefore(1970)

\* Days from 1970-01-01 to the civil date y-m-d.
DayNumber(y, m, d) == DaysBeforeYear(y) + DaysBeforeMonth(y, m) + (d - 1)

\* new Date(dateString).getTime() for a date-only string, in seconds.
ParseDateOnly(date) == DayNumber(date[1], date[2], date[3]) * 86400

\* new Date(y, monthIndex + 1, day, h, mi, s).getTime() in the zone tz, in seconds.
LocalInstant(y, m, d, h, mi, s, tz) ==
  DayNumber(y, m, d) * 86400 + h * 3600 + mi * 60 + s - tz * 60

\* new Date(year, month - 1, 1)
StartDate(month, year, tz) == LocalInstant(year, month, 1, 0, 0, 0, tz)

\* new Date(year, month, 0, 23, 59, 59): day 0 of the next month is the last day of this one.
EndDate(month, year, tz) ==
  LocalInstant(year, month, DaysInMonth(year, month), 23, 59, 59, tz)

(***************************************************************************)
(* Sequences.                                                              *)
(***************************************************************************)
Range(s) == {s[i] : i \in 1..Len(s)}

\* t placed after every element that the comparator does not order after it.
RECURSIVE InsertByDateDesc(_, _)
InsertByDateDesc(sorted, t) ==
  IF sorted = <<>> THEN <<t>>
  ELSE IF ParseDateOnly(Head(sorted).date) >= ParseDateOnly(t.date)
       THEN <<Head(sorted)>> \o InsertByDateDesc(Tail(sorted), t)
       ELSE <<t>> \o sorted

RECURSIVE SortFrom(_, _)
SortFrom(acc, s) ==
  IF s = <<>> THEN acc ELSE SortFrom(InsertByDateDesc(acc, Head(s)), Tail(s))

\* Mutant: the list is returned in the order it is stored in.
SortByDateDesc_Unsorted(s) == s

\* transactions.sort((a, b) => new Date(b.date).getTime() - new Date(a.date).getTime()),
\* Array.prototype.sort being stable.
SortByDateDesc(s) == SortFrom(<<>>, s)

(***************************************************************************)
(* AsyncStorage keys.  A key is absent or holds the JSON text of an array; *)
(* JSON.parse(JSON.stringify(a)) = a for the records stored here.          *)
(***************************************************************************)
Absent == [has |-> FALSE, items |-> <<>>]
Holding(items) == [has |-> TRUE, items |-> items]

EmptyStore == [tx |-> Absent, goals |-> Absent, cats |-> Absent]

(***************************************************************************)
(* Transaction Ledger.                                                     *)
(***************************************************************************)
InPeriod(t, month, year, tz) ==
  /\ ParseDateOnly(t.date) >= StartDate(month, year, tz)
  /\ ParseDateOnly(t.date) <= EndDate(month, year, tz)

\* getTransactions(month?, year?) on a store; month or year 0 when not supplied.
GetTransactionsOf(st, month, year, tz) ==
  IF ~st.tx.has THEN <<>>
  ELSE LET all == st.tx.items
           Keep(t) == InPeriod(t, month, year, tz)
           filtered == IF month # 0 /\ year # 0 THEN SelectSeq(all, Keep) ELSE all
       IN SortByDateDesc(filtered)

StoredTransactions(st) == IF st.tx.has THEN st.tx.items ELSE <<>>

\* { ...transaction, id }
WithId(x, id) ==
  [id |-> id, type |-> x.type, category |-> x.category, amount |-> x.amount,
   description |-> x.description, date |-> x.date]

\* Date.now().toString() + Math.random().toString(36).substr(2, 9): the n-th id
\* generated for a collection.
GenId(kind, n) == <<kind, n>>

\* Mutant: the collection written holds the new record alone.
AddTransactionOn_Overwrites(st, x, id, tz) ==
  [st EXCEPT !.tx = Holding(<<WithId(x, id)>>)]

\* addTransaction: the store it leaves.
AddTransactionOn(st, x, id, tz) ==
  [st EXCEPT !.tx = Holding(<<WithId(x, id)>> \o GetTransactionsOf(st, 0, 0, tz))]

\* Mutant: the filter keeps the records with a smaller id, so it also drops later ones.
DeleteTransactionOn_DropsLater(st, id, tz) ==
  LET Keep(t) == t.id[2] < id[2]
  IN [st EXCEPT !.tx = Holding(SelectSeq(GetTransactionsOf(st, 0, 0, tz), Keep))]

\* deleteTransaction: the store it leaves.
DeleteTransactionOn(st, id, tz) ==
  LET Keep(t) == t.id # id
  IN [st EXCEPT !.tx = Holding(SelectSeq(GetTransactionsOf(st, 0, 0, tz), Keep))]

(***************************************************************************)
(* Statistics Engine.                                                      *)
(***************************************************************************)
\* .reduce((sum, t) => sum + t.amount, 0) continued from acc.
RECURSIVE SumFrom(_, _)
SumFrom(acc, s) ==
  IF s = <<>> THEN acc ELSE SumFrom(NumAdd(acc, Head(s).amount), Tail(s))

\* acc[t.category] = (acc[t.category] || 0) + t.amount
PutExpense(acc, t) ==
  LET before == IF t.category \in DOMAIN acc THEN acc[t.category] ELSE 0
  IN [c \in DOMAIN acc \cup {t.category} |->
        IF c = t.category THEN NumAdd(before, t.amount) ELSE acc[c]]

RECURSIVE ByCategoryFrom(_, _)
ByCategoryFrom(acc, s) ==
  IF s = <<>> THEN acc ELSE ByCategoryFrom(PutExpense(acc, Head(s)), Tail(s))

NoKeys == [c \in {} |-> 0]

IsIncome(t) == t.type = "income"
IsExpense(t) == t.type = "expense"

\* getTransactionStats(month?, year?)
GetTransactionStatsOf(st, month, year, tz) ==
  LET transactions == GetTransactionsOf(st, month, year, tz)
      totalIncome == SumFrom(0, SelectSeq(transactions, IsIncome))
      totalExpense == SumFrom(0, SelectSeq(transactions, IsExpense))
  IN [totalIncome |-> totalIncome,
      totalExpense |-> totalExpense,
      netBalance |-> NumSub(totalIncome, totalExpense),
      expensesByCategory |-> ByCategoryFrom(NoKeys, SelectSeq(transactions, IsExpense))]

(***************************************************************************)
(* Budget Goal Store.                                                      *)
(***************************************************************************)
\* getBudgetGoals()
GetBudgetGoalsOf(st) == IF st.goals.has THEN st.goals.items ELSE <<>>

\* { ...goal, id, createdAt }
NewGoal(g, id, now) ==
  [id |-> id, category |-> g.category, amount |-> g.amount, period |-> g.period,
   isActive |-> g.isActive, createdAt |-> now]

AddBudgetGoalOn(st, g, id, now) ==
  [st EXCEPT !.goals = Holding(<<NewGoal(g, id, now)>> \o GetBudgetGoalsOf(st))]

\* Mutant: the amount of the stored goal wins over the amount of updates.
MergeGoal_KeepsAmount(goal, updates) ==
  [id |-> goal.id,
   category |-> OrElse(updates.category, goal.category),
   amount |-> goal.amount,
   period |-> OrElse(updates.period, goal.period),
   isActive |-> OrElse(updates.isActive, goal.isActive),
   createdAt |-> goal.createdAt]

\* { ...goal, ...updates }
MergeGoal(goal, updates) ==
  [id |-> goal.id,
   category |-> OrElse(updates.category, goal.category),
   amount |-> OrElse(updates.amount, goal.amount),
   period |-> OrElse(updates.period, goal.period),
   isActive |-> OrElse(updates.isActive, goal.isActive),
   createdAt |-> goal.createdAt]

UpdateBudgetGoalOn(st, id, updates) ==
  LET goals == GetBudgetGoalsOf(st)
  IN [st EXCEPT !.goals =
        Holding([i \in 1..Len(goals) |->
                   IF goals[i].id = id THEN MergeGoal(goals[i], updates) ELSE goals[i]])]

DeleteBudgetGoalOn(st, id) ==
  LET Keep(g) == g.id # id
  IN [st EXCEPT !.goals = Holding(SelectSeq(GetBudgetGoalsOf(st), Keep))]

(***************************************************************************)
(* Alert Evaluator.                                                        *)
(***************************************************************************)
\* (currentSpending / goal.amount) * 100 as the fraction num / den.
Percentage(currentSpending, amount) ==
  [num |-> currentSpending * 100, den |-> amount]

\* Mutant: the thresholds are compared with > in place of >=.
PctAtLeast_Strict(p, k) == p.den > 0 /\ p.num > k * p.den

\* Mutant: a goal whose amount is not positive is skipped.
PctAtLeast_Guarded(p, k) == p.den > 0 /\ p.num >= k * p.den

\* percentage >= k: a zero denominator gives Infinity, -Infinity or NaN.
PctAtLeast(p, k) ==
  IF p.den > 0 THEN p.num >= k * p.den
  ELSE IF p.den < 0 THEN p.num <= k * p.den
  ELSE p.num > 0

\* stats.expensesByCategory[goal.category] || 0
CurrentSpending(stats, goal) ==
  IF goal.category \in DOMAIN stats.expensesByCategory
  THEN stats.expensesByCategory[goal.category] ELSE 0

\* Mutant: the test of goal.isActive is lost.
AlertTier_IgnoresActive(stats, goal) ==
  LET percentage == Percentage(CurrentSpending(stats, goal), goal.amount)
  IN IF percentage.num >= 100 * percentage.den THEN "exceeded"
     ELSE IF percentage.num >= 80 * percentage.den THEN "warning"
     ELSE "none"

\* The body of goals.forEach: which list the goal is pushed to.
AlertTier(stats, goal) ==
  IF ~goal.isActive THEN "none"
  ELSE LET percentage == Percentage(CurrentSpending(stats, goal), goal.amount)
       IN IF PctAtLeast(percentage, 100) THEN "exceeded"
          ELSE IF PctAtLeast(percentage, 80) THEN "warning"
          ELSE "none"

AlertEntry(stats, goal) ==
  [goal |-> goal,
   currentSpending |-> CurrentSpending(stats, goal),
   percentage |-> Percentage(CurrentSpending(stats, goal), goal.amount)]

\* checkBudgetAlerts(month?, year?)
CheckBudgetAlertsOf(st, month, year, tz) ==
  LET goals == GetBudgetGoalsOf(st)
      stats == GetTransactionStatsOf(st, month, year, tz)
      Exceeded(g) == AlertTier(stats, g) = "exceeded"
      Warning(g) == AlertTier(stats, g) = "warning"
      ex == SelectSeq(goals, Exceeded)
      wa == SelectSeq(goals, Warning)
  IN [exceededGoals |-> [i \in 1..Len(ex) |-> AlertEntry(stats, ex[i])],
      warningGoals |-> [i \in 1..Len(wa) |-> AlertEntry(stats, wa[i])]]

(***************************************************************************)
(* Category Registry.                                                      *)
(***************************************************************************)
DefaultExpenseNames ==
  <<"Food & Dining", "Transportation", "Shopping", "Entertainment",
    "Healthcare", "Utilities", "Housing", "Education", "Travel", "Other">>

DefaultIncomeNames ==
  <<"Salary", "Freelance", "Investment", "Business", "Gift", "Other Income">>

\* initializeDefaultCategories: the list it builds at time now.
DefaultCategories(now) ==
  [i \in 1..Len(DefaultExpenseNames) |->
     [id |-> <<"expense", i - 1>>, name |-> DefaultExpenseNames[i],
      type |-> "expense", isCustom |-> FALSE, createdAt |-> now]]
  \o
  [i \in 1..Len(DefaultIncomeNames) |->
     [id |-> <<"income", i - 1>>, name |-> DefaultIncomeNames[i],
      type |-> "income", isCustom |-> FALSE, createdAt |-> now]]

\* Mutant: the defaults are built and persisted on every call.
GetCategoriesOn_Reseeds(st, now) ==
  [ret |-> DefaultCategories(now),
   store |-> [st EXCEPT !.cats = Holding(DefaultCategories(now))]]

\* getCategories(): the list it returns and the store it leaves.
GetCategoriesOn(st, now) ==
  IF ~st.cats.has
  THEN [ret |-> DefaultCategories(now),
        store |-> [st EXCEPT !.cats = Holding(DefaultCategories(now))]]
  ELSE [ret |-> st.cats.items, store |-> st]

\* { ...category, id, createdAt }
NewCategory(c, id, now) ==
  [id |-> id, name |-> c.name, type |-> c.type, isCustom |-> c.isCustom,
   createdAt |-> now]

AddCategoryOn(st, c, id, now) ==
  LET got == GetCategoriesOn(st, now)
  IN [got.store EXCEPT !.cats = Holding(Append(got.ret, NewCategory(c, id, now)))]

\* Mutant: the test of transaction.category is lost, every transaction is retagged.
UpdateCategoryInTransactions_RetagsAll(st, oldName, newName, tz) ==
  LET transactions == GetTransactionsOf(st, 0, 0, tz)
  IN [st EXCEPT !.tx =
        Holding([i \in 1..Len(transactions) |->
                   [transactions[i] EXCEPT !.category = newName]])]

\* updateCategoryInTransactions(oldCategoryName, newCategoryName)
UpdateCategoryInTransactions(st, oldName, newName, tz) ==
  LET transactions == GetTransactionsOf(st, 0, 0, tz)
  IN [st EXCEPT !.tx =
        Holding([i \in 1..Len(transactions) |->
                   IF transactions[i].category = oldName
                   THEN [transactions[i] EXCEPT !.category = newName]
                   ELSE transactions[i]])]

\* Mutant: the goals are written back as they were read.
UpdateCategoryInGoals_KeepsName(st, oldName, newName) ==
  [st EXCEPT !.goals = Holding(GetBudgetGoalsOf(st))]

\* updateCategoryInGoals(oldCategoryName, newCategoryName)
UpdateCategoryInGoals(st, oldName, newName) ==
  LET goals == GetBudgetGoalsOf(st)
  IN [st EXCEPT !.goals =
        Holding([i \in 1..Len(goals) |->
                   IF goals[i].category = oldName
                   THEN [goals[i] EXCEPT !.category = newName]
                   ELSE goals[i]])]

\* categories.findIndex(cat => cat.id === id); 0 when there is none.
FindIndex(categories, id) ==
  IF \E i \in 1..Len(categories) : categories[i].id = id
  THEN CHOOSE i \in 1..Len(categories) :
         /\ categories[i].id = id
         /\ \A j \in 1..(i - 1) : categories[j].id # id
  ELSE 0

\* { ...oldCategory, ...updates }
MergeCategory(cat, updates) ==
  [id |-> cat.id,
   name |-> OrElse(updates.name, cat.name),
   type |-> OrElse(updates.type, cat.type),
   isCustom |-> cat.isCustom,
   createdAt |-> cat.createdAt]

\* updates.name && oldCategory.name !== updates.name
NameChanged(oldCategory, updates) ==
  /\ updates.name # NotGiven
  /\ oldCategory.name # updates.name[1]

\* Mutant: an id that is not stored is added as a new category.
UpdateCategoryOn_AddsMissing(st, id, updates, now, tz) ==
  LET got == GetCategoriesOn(st, now)
      categories == got.ret
      categoryIndex == FindIndex(categories, id)
      added == [id |-> id, name |-> OrElse(updates.name, "Other"),
                type |-> OrElse(updates.type, "expense"), isCustom |-> TRUE,
                createdAt |-> now]
  IN IF categoryIndex = 0
     THEN [ok |-> TRUE, error |-> "",
           store |-> [got.store EXCEPT !.cats = Holding(Append(categories, added))]]
     ELSE [ok |-> TRUE, error |-> "",
           store |-> [got.store EXCEPT !.cats = Holding(
                        [categories EXCEPT ![categoryIndex] =
                           MergeCategory(categories[categoryIndex], updates)])]]

\* updateCategory(id, updates): the store it leaves and whether it returned or threw.
UpdateCategoryOn(st, id, updates, now, tz) ==
  LET got == GetCategoriesOn(st, now)
      categories == got.ret
      categoryIndex == FindIndex(categories, id)
  IN IF categoryIndex = 0
     THEN [ok |-> FALSE, error |-> "Category not found", store |-> got.store]
     ELSE LET oldCategory == categories[categoryIndex]
              updated == [categories EXCEPT
                            ![categoryIndex] = MergeCategory(oldCategory, updates)]
              cascaded ==
                IF NameChanged(oldCategory, updates)
                THEN UpdateCategoryInGoals(
                       UpdateCategoryInTransactions(got.store, oldCategory.name,
                                                    updates.name[1], tz),
                       oldCategory.name, updates.name[1])
                ELSE got.store
          IN [ok |-> TRUE, error |-> "",
              store |-> [cascaded EXCEPT !.cats = Holding(updated)]]

\* Mutant: the isCustom test comes after the cascade.
DeleteCategoryOn_CascadesFirst(st, id, now, tz) ==
  LET got == GetCategoriesOn(st, now)
      categories == got.ret
      categoryIndex == FindIndex(categories, id)
  IN IF categoryIndex = 0
     THEN [ok |-> FALSE, error |-> "Category not found", store |-> got.store]
     ELSE LET category == categories[categoryIndex]
              Keep(cat) == cat.id # id
              cascaded ==
                UpdateCategoryInGoals(
                  UpdateCategoryInTransactions(got.store, category.name, "Other", tz),
                  category.name, "Other")
          IN IF ~category.isCustom
             THEN [ok |-> FALSE, error |-> "Cannot delete default categories",
                   store |-> cascaded]
             ELSE [ok |-> TRUE, error |-> "",
                   store |-> [cascaded EXCEPT
                                !.cats = Holding(SelectSeq(categories, Keep))]]

\* deleteCategory(id): the store it leaves and whether it returned or threw.
DeleteCategoryOn(st, id, now, tz) ==
  LET got == GetCategoriesOn(st, now)
      categories == got.ret
      categoryIndex == FindIndex(categories, id)
  IN IF categoryIndex = 0
     THEN [ok |-> FALSE, error |-> "Category not found", store |-> got.store]
     ELSE LET category == categories[categoryIndex]
              Keep(cat) == cat.id # id
              updatedCategories == SelectSeq(categories, Keep)
              cascaded ==
                UpdateCategoryInGoals(
                  UpdateCategoryInTransactions(got.store, category.name, "Other", tz),
                  category.name, "Other")
          IN IF ~category.isCustom
             THEN [ok |-> FALSE, error |-> "Cannot delete default categories",
                   store |-> got.store]
             ELSE [ok |-> TRUE, error |-> "",
                   store |-> [cascaded EXCEPT !.cats = Holding(updatedCategories)]]

(***************************************************************************)
(* The operations of the service, each awaited to its end.                 *)
(***************************************************************************)
Done(op, ok, ret) == [op |-> op, ok |-> ok, ret |-> ret]

AddTransaction(x) ==
  /\ store' = AddTransactionOn(store, x, GenId("tx", nextId.tx), tzOffset)
  /\ nextId' = [nextId EXCEPT !.tx = @ + 1]
  /\ last' = Done("addTransaction", TRUE, WithId(x, GenId("tx", nextId.tx)))
  /\ UNCHANGED <<tzOffset, calls, refreshTrigger, screens>>

GetTransactions(month, year) ==
  /\ last' = Done("getTransactions", TRUE,
                  GetTransactionsOf(store, month, year, tzOffset))
  /\ UNCHANGED <<store, tzOffset, nextId, calls, refreshTrigger, screens>>

DeleteTransaction(id) ==
  /\ store' = DeleteTransactionOn(store, id, tzOffset)
  /\ last' = Done("deleteTransaction", TRUE, UNDEFINED)
  /\ UNCHANGED <<tzOffset, nextId, calls, refreshTrigger, screens>>

GetTransactionStats(month, year) ==
  /\ last' = Done("getTransactionStats", TRUE,
                  GetTransactionStatsOf(store, month, year, tzOffset))
  /\ UNCHANGED <<store, tzOffset, nextId, calls, refreshTrigger, screens>>

AddBudgetGoal(g) ==
  /\ store' = AddBudgetGoalOn(store, g, GenId("goal", nextId.goal), nextId.goal)
  /\ nextId' = [nextId EXCEPT !.goal = @ + 1]
  /\ last' = Done("addBudgetGoal", TRUE,
                  NewGoal(g, GenId("goal", nextId.goal), nextId.goal))
  /\ UNCHANGED <<tzOffset, calls, refreshTrigger, screens>>

GetBudgetGoals ==
  /\ last' = Done("getBudgetGoals", TRUE, GetBudgetGoalsOf(store))
  /\ UNCHANGED <<store, tzOffset, nextId, calls, refreshTrigger, screens>>

UpdateBudgetGoal(id, updates) ==
  /\ store' = UpdateBudgetGoalOn(store, id, updates)
  /\ last' = Done("updateBudgetGoal", TRUE, UNDEFINED)
  /\ UNCHANGED <<tzOffset, nextId, calls, refreshTrigger, screens>>

DeleteBudgetGoal(id) ==
  /\ store' = DeleteBudgetGoalOn(store, id)
  /\ last' = Done("deleteBudgetGoal", TRUE, UNDEFINED)
  /\ UNCHANGED <<tzOffset, nextId, calls, refreshTrigger, screens>>

CheckBudgetAlerts(month, year) ==
  /\ last' = Done("checkBudgetAlerts", TRUE,
                  CheckBudgetAlertsOf(store, month, year, tzOffset))
  /\ UNCHANGED <<store, tzOffset, nextId, calls, refreshTrigger, screens>>

GetCategories ==
  /\ store' = GetCategoriesOn(store, nextId.cat).store
  /\ last' = Done("getCategories", TRUE, GetCategoriesOn(store, nextId.cat).ret)
  /\ UNCHANGED <<tzOffset, nextId, calls, refreshTrigger, screens>>

AddCategory(c) ==
  /\ store' = AddCategoryOn(store, c, GenId("cat", nextId.cat), nextId.cat)
  /\ nextId' = [nextId EXCEPT !.cat = @ + 1]
  /\ last' = Done("addCategory", TRUE,
                  NewCategory(c, GenId("cat", nextId.cat), nextId.cat))
  /\ UNCHANGED <<tzOffset, calls, refreshTrigger, screens>>

UpdateCategory(id, updates) ==
  LET res == UpdateCategoryOn(store, id, updates, nextId.cat, tzOffset)
  IN /\ store' = res.store
     /\ last' = Done("updateCategory", res.ok, res.error)
     /\ UNCHANGED <<tzOffset, nextId, calls, refreshTrigger, screens>>

DeleteCategory(id) ==
  LET res == DeleteCategoryOn(store, id, nextId.cat, tzOffset)
  IN /\ store' = res.store
     /\ last' = Done("deleteCategory", res.ok, res.error)
     /\ UNCHANGED <<tzOffset, nextId, calls, refreshTrigger, screens>>

(***************************************************************************)
(* Inputs.                                                                 *)
(***************************************************************************)
Draft(type, category, amount, description, date) ==
  [type |-> type, category |-> category, amount |-> amount,
   description |-> description, date |-> date]

GoalDraft(category, amount, period, isActive) ==
  [category |-> category, amount |-> amount, period |-> period, isActive |-> isActive]

GoalUpdates(category, amount, period, isActive) ==
  [category |-> category, amount |-> amount, period |-> period, isActive |-> isActive]

CategoryDraft(name, type, isCustom) == [name |-> name, type |-> type, isCustom |-> isCustom]

CategoryUpdates(name, type) == [name |-> name, type |-> type]

\* Device zones: New York (EST), UTC, India.
TimeZones == {-300, 0, 330}

NoOp == Done("none", TRUE, UNDEFINED)

\* No screen is mounted.
NoScreens == <<>>

\* triggerRefresh: setRefreshTrigger(prev => prev + 1)
TriggerRefresh(prev) == prev + 1

\* The callers that can have a call of the service in flight at the same time.
Callers == {1, 2}

\* A caller with no call started yet.
Idle ==
  [op |-> "none", pc |-> "idle", rest |-> <<>>, id |-> <<"none", 0>>,
   arg |-> UNDEFINED, now |-> 0, read |-> <<>>, list |-> <<>>,
   from |-> "", to |-> "", ok |-> TRUE, ret |-> UNDEFINED, failed |-> {},
   before |-> EmptyStore, origin |-> EmptyStore, alone |-> TRUE]

NoCalls == [w \in Callers |-> Idle]

InitIn(zones) ==
  /\ store = EmptyStore
  /\ tzOffset \in zones
  /\ nextId = [tx |-> 1, goal |-> 1, cat |-> 1]
  /\ last = NoOp
  /\ calls = NoCalls
  /\ refreshTrigger = 0
  /\ screens = NoScreens

(***************************************************************************)
(* Spec: the category registry with its cascades into the ledger and the   *)
(* goal store, on one custom category beside the defaults.                 *)
(***************************************************************************)
Drafts ==
  {Draft("expense", "Gym", 400, UNDEFINED, <<2024, 1, 5>>),
   Draft("expense", "Food & Dining", 100, "lunch", <<2024, 1, 7>>)}

GoalDrafts ==
  {GoalDraft("Gym", 500, "monthly", TRUE),
   GoalDraft("Food & Dining", 100, "annual", FALSE)}

CategoryDrafts == {CategoryDraft("Gym", "expense", TRUE)}

CategoryUpdateSet ==
  {CategoryUpdates(Given("Fitness"), Given("expense")),
   CategoryUpdates(NotGiven, Given("expense"))}

GoalIds == {GenId("goal", n) : n \in 1..MaxGoals}
CategoryIds == {GenId("cat", n) : n \in 1..MaxCats} \cup {<<"expense", 0>>}

Init == InitIn({0})

Next ==
  \/ \E x \in Drafts : nextId.tx <= MaxTx /\ AddTransaction(x)
  \/ \E g \in GoalDrafts : nextId.goal <= MaxGoals /\ AddBudgetGoal(g)
  \/ \E c \in CategoryDrafts : nextId.cat <= MaxCats /\ AddCategory(c)
  \/ \E id \in CategoryIds, u \in CategoryUpdateSet : UpdateCategory(id, u)
  \/ \E id \in CategoryIds : DeleteCategory(id)
  \/ GetCategories

Spec == Init /\ [][Next]_vars

(***************************************************************************)
(* Claims about the cascades (Spec).                                       *)
(***************************************************************************)
\* The categories an operation works on: the stored list, or the defaults
\* when the key is absent.
CategoriesSeen == IF store.cats.has THEN store.cats.items ELSE DefaultCategories(nextId.cat)

HasCategory(id) == \E c \in Range(CategoriesSeen) : c.id = id
CategoryWith(id) == CHOOSE c \in Range(CategoriesSeen) : c.id = id

Retagged(r, from, to) == IF r.category = from THEN [r EXCEPT !.category = to] ELSE r

\* Every record tagged `from` is now tagged `to`, with its other fields kept; the
\* other records are the same; none is added or lost.
CascadedFrom(old, new, from, to) ==
  /\ Len(new) = Len(old)
  /\ Range(new) = {Retagged(r, from, to) : r \in Range(old)}

\* C1: after updateCategory(id, {name: N}) succeeds on a category named O # N, the
\* transactions and goals tagged O are tagged N and all others are unchanged.
C1_RenameCascades ==
  [][\A id \in CategoryIds, u \in CategoryUpdateSet :
       (/\ last'.op = "updateCategory"
        /\ UpdateCategory(id, u)
        /\ last'.ok
        /\ u.name # NotGiven
        /\ CategoryWith(id).name # u.name[1])
       => /\ CascadedFrom(StoredTransactions(store), StoredTransactions(store'),
                          CategoryWith(id).name, u.name[1])
          /\ CascadedFrom(GetBudgetGoalsOf(store), GetBudgetGoalsOf(store'),
                          CategoryWith(id).name, u.name[1])]_vars

C1_Witness ==
  /\ last.op = "updateCategory"
  /\ last.ok
  /\ \E t \in Range(StoredTransactions(store)) : t.category = "Fitness"
  /\ \E t \in Range(StoredTransactions(store)) : t.category \notin {"Fitness", "Other"}
  /\ \E g \in Range(GetBudgetGoalsOf(store)) : g.category = "Fitness"

\* C2: after deleteCategory(id) succeeds on a custom category named C, the
\* transactions and goals tagged C are tagged "Other", all others are unchanged,
\* the entry is gone from the category list and every other entry is still there.
C2_DeleteCascades ==
  [][\A id \in CategoryIds :
       (/\ last'.op = "deleteCategory"
        /\ DeleteCategory(id)
        /\ last'.ok)
       => /\ CategoryWith(id).isCustom
          /\ CascadedFrom(StoredTransactions(store), StoredTransactions(store'),
                          CategoryWith(id).name, "Other")
          /\ CascadedFrom(GetBudgetGoalsOf(store), GetBudgetGoalsOf(store'),
                          CategoryWith(id).name, "Other")
          /\ store'.cats.has
          /\ \A c \in Range(store'.cats.items) : c.id # id
          /\ Range(store'.cats.items) = {c \in Range(CategoriesSeen) : c.id # id}
          /\ Len(store'.cats.items) = Len(CategoriesSeen) - 1]_vars

C2_Witness ==
  /\ last.op = "deleteCategory"
  /\ last.ok
  /\ \E t \in Range(StoredTransactions(store)) : t.category = "Other"
  /\ \E t \in Range(StoredTransactions(store)) : t.category = "Food & Dining"
  /\ \E g \in Range(GetBudgetGoalsOf(store)) : g.category = "Other"
  /\ Len(store.cats.items) = 16

\* The call of deleteCategory(id) on a category that is not custom.
DeleteOfDefault(id) ==
  /\ last'.op = "deleteCategory"
  /\ DeleteCategory(id)
  /\ HasCategory(id)
  /\ ~CategoryWith(id).isCustom

\* C3 as stated: deleteCategory(id) on a category that is not custom fails and
\* leaves the three keys holding exactly what they held, in every state.
C3_DefaultDeleteLeavesStore ==
  [][\A id \in CategoryIds :
       DeleteOfDefault(id) => (~last'.ok /\ store' = store)]_vars

\* C3 amended: it fails, the transactions and goals keys hold exactly what they
\* held, and the categories key holds what it held when present and the default
\* set when it was absent.
C3_DefaultDeleteKeepsRecords ==
  [][\A id \in CategoryIds :
       DeleteOfDefault(id) =>
         /\ ~last'.ok
         /\ last'.ret = "Cannot delete default categories"
         /\ store'.tx = store.tx
         /\ store'.goals = store.goals
         /\ store'.cats = Holding(CategoriesSeen)]_vars

C3_Witness ==
  /\ last.op = "deleteCategory"
  /\ ~last.ok
  /\ last.ret = "Cannot delete default categories"
  /\ \E t \in Range(StoredTransactions(store)) : t.category = "Food & Dining"
  /\ \E c \in Range(store.cats.items) : c.isCustom

(***************************************************************************)
(* SpecAlerts: goals, their activation, expenses in and out of January     *)
(* 2024, and the alert evaluation for that month and for all time.         *)
(***************************************************************************)
AlertDrafts ==
  {Draft("expense", "Gym", 400, UNDEFINED, <<2024, 1, 5>>),
   Draft("expense", "Gym", 100, "day pass", <<2024, 1, 7>>),
   Draft("expense", "Gym", 399, UNDEFINED, <<2024, 1, 9>>),
   Draft("expense", "Gym", 400, UNDEFINED, <<2024, 2, 10>>),
   Draft("expense", "Food & Dining", 500, UNDEFINED, <<2024, 1, 20>>),
   Draft("income", "Gym", 500, "refund", <<2024, 1, 21>>)}

AlertGoalDrafts ==
  {GoalDraft("Gym", 500, "monthly", TRUE),
   GoalDraft("Food & Dining", 500, "monthly", TRUE)}

\* handleToggleGoal: updateBudgetGoal(goal.id, { isActive: !goal.isActive })
Toggles ==
  {GoalUpdates(NotGiven, NotGiven, NotGiven, Given(FALSE)),
   GoalUpdates(NotGiven, NotGiven, NotGiven, Given(TRUE))}

AlertGoalIds == {GenId("goal", n) : n \in 1..MaxAlertGoals}

\* <<month, year>>; <<0, 0>> when neither is supplied.
AlertPeriods == {<<1, 2024>>, <<0, 0>>}

InitAlerts == InitIn(TimeZones)

NextAlerts ==
  \/ \E x \in AlertDrafts : nextId.tx <= MaxTx /\ AddTransaction(x)
  \/ \E g \in AlertGoalDrafts : nextId.goal <= MaxAlertGoals /\ AddBudgetGoal(g)
  \/ \E id \in AlertGoalIds, u \in Toggles : UpdateBudgetGoal(id, u)
  \/ \E p \in AlertPeriods : CheckBudgetAlerts(p[1], p[2])

SpecAlerts == InitAlerts /\ [][NextAlerts]_vars

(***************************************************************************)
(* Claims about the alert evaluator (SpecAlerts).                          *)
(***************************************************************************)
\* The exact sum of the amounts of a sequence of transactions.
RECURSIVE AmountOf(_)
AmountOf(s) == IF s = <<>> THEN 0 ELSE Head(s).amount + AmountOf(Tail(s))

OnCalendar(t, p) == p = <<0, 0>> \/ (t.date[2] = p[1] /\ t.date[1] = p[2])

\* What was spent on a category in a period, counted from the stored records.
SpentOn(category, p) ==
  LET Counts(t) == t.type = "expense" /\ t.category = category /\ OnCalendar(t, p)
  IN AmountOf(SelectSeq(StoredTransactions(store), Counts))

Listed(entries, g) == \E i \in 1..Len(entries) : entries[i].goal = g

EntryOf(entries, g) == entries[CHOOSE i \in 1..Len(entries) : entries[i].goal = g]

\* C4: for every active goal with amount > 0, currentSpending is the period's
\* expense total of the goal's category (0 when there is none); the goal is in
\* exceededGoals exactly when currentSpending / amount * 100 >= 100, in
\* warningGoals exactly when that percentage is >= 80 and < 100, and never in both.
C4_AlertClassification ==
  [][\A p \in AlertPeriods :
       (last'.op = "checkBudgetAlerts" /\ CheckBudgetAlerts(p[1], p[2])) =>
         \A g \in Range(GetBudgetGoalsOf(store)) :
           (g.isActive /\ g.amount > 0) =>
             LET spent == SpentOn(g.category, p)
                 exceeded == Listed(last'.ret.exceededGoals, g)
                 warning == Listed(last'.ret.warningGoals, g)
             IN /\ exceeded <=> spent * 100 >= 100 * g.amount
                /\ warning <=> (spent * 100 >= 80 * g.amount /\ spent * 100 < 100 * g.amount)
                /\ ~(exceeded /\ warning)
                /\ exceeded => EntryOf(last'.ret.exceededGoals, g).currentSpending = spent
                /\ warning => EntryOf(last'.ret.warningGoals, g).currentSpending = spent
                /\ (g.amount = 500 /\ spent = 400) => warning
                /\ (g.amount = 500 /\ spent = 500) => exceeded]_vars

\* A goal of 500 with 400 spent is a warning while another of 500 with 500 spent
\* is exceeded, in one result.
C4_Witness ==
  /\ last.op = "checkBudgetAlerts"
  /\ \E i \in 1..Len(last.ret.warningGoals) :
       /\ last.ret.warningGoals[i].goal.amount = 500
       /\ last.ret.warningGoals[i].currentSpending = 400
  /\ \E i \in 1..Len(last.ret.exceededGoals) :
       /\ last.ret.exceededGoals[i].goal.amount = 500
       /\ last.ret.exceededGoals[i].currentSpending = 500

\* C5: a goal whose isActive is false is in neither list of checkBudgetAlerts,
\* whatever was spent in its category: every listed goal is a stored, active one.
C5_InactiveNeverListed ==
  last.op = "checkBudgetAlerts" =>
    \A g \in Range(GetBudgetGoalsOf(store)) :
      ~g.isActive =>
        /\ \A i \in 1..Len(last.ret.exceededGoals) : last.ret.exceededGoals[i].goal.id # g.id
        /\ \A i \in 1..Len(last.ret.warningGoals) : last.ret.warningGoals[i].goal.id # g.id

\* A deactivated goal whose category is overspent is left out of a result that
\* lists another goal.
C5_Witness ==
  /\ last.op = "checkBudgetAlerts"
  /\ \E g \in Range(GetBudgetGoalsOf(store)) :
       /\ ~g.isActive
       /\ SpentOn(g.category, <<1, 2024>>) >= g.amount
       /\ ~Listed(last.ret.exceededGoals, g)
  /\ Len(last.ret.exceededGoals) + Len(last.ret.warningGoals) > 0

(***************************************************************************)
(* SpecLedger: the ledger in three device zones, with dates on both sides  *)
(* of the bounds of January 2024, deletions and the rename cascade.        *)
(***************************************************************************)
LedgerDrafts ==
  {Draft("expense", "Food & Dining", 30, UNDEFINED, <<2023, 12, 31>>),
   Draft("income", "Salary", 2000, "pay", <<2024, 1, 1>>),
   Draft("expense", "Food & Dining", 50, "lunch", <<2024, 1, 31>>),
   Draft("expense", "Gym", 40, UNDEFINED, <<2024, 2, 1>>)}

LedgerIds == {GenId("tx", n) : n \in 1..MaxLedger}

\* <<month, year>>; a 0 for what is not supplied.
LedgerPeriods == {<<1, 2024>>, <<0, 0>>, <<1, 0>>}

LedgerRenames == {CategoryUpdates(Given("Meals"), NotGiven)}

InitLedger == InitIn(TimeZones)

NextLedger ==
  \/ \E x \in LedgerDrafts : nextId.tx <= MaxLedger /\ AddTransaction(x)
  \/ \E id \in LedgerIds : DeleteTransaction(id)
  \/ \E p \in LedgerPeriods : GetTransactions(p[1], p[2])
  \/ \E u \in LedgerRenames : UpdateCategory(<<"expense", 0>>, u)

SpecLedger == InitLedger /\ [][NextLedger]_vars

(***************************************************************************)
(* Claims about the ledger (SpecLedger).                                   *)
(***************************************************************************)
\* The calendar order of two date-only strings.
Earlier(d, e) ==
  \/ d[1] < e[1]
  \/ d[1] = e[1] /\ d[2] < e[2]
  \/ d[1] = e[1] /\ d[2] = e[2] /\ d[3] < e[3]

\* The position of the record with this id in a list.
PositionIn(s, id) == CHOOSE i \in 1..Len(s) : s[i].id = id

\* C8 as stated: with month and year supplied, getTransactions returns exactly
\* the stored transactions whose calendar date lies in that month, in every
\* device zone; with month or year missing it returns every stored transaction.
C8_MonthFilterInEveryZone ==
  [][\A p \in LedgerPeriods :
       (last'.op = "getTransactions" /\ GetTransactions(p[1], p[2])) =>
         LET wanted == IF p[1] # 0 /\ p[2] # 0
                       THEN {t \in Range(StoredTransactions(store)) : OnCalendar(t, p)}
                       ELSE Range(StoredTransactions(store))
         IN /\ Range(last'.ret) = wanted
            /\ Len(last'.ret) = Cardinality(wanted)]_vars

\* C9: the list returned by getTransactions is ordered by date descending, and
\* transactions of equal date keep the relative order of the stored collection,
\* the most recently added first.
C9_DateDescendingStable ==
  last.op = "getTransactions" =>
    \A i, j \in 1..Len(last.ret) :
      i < j =>
        /\ ~Earlier(last.ret[i].date, last.ret[j].date)
        /\ last.ret[i].date = last.ret[j].date =>
             /\ PositionIn(StoredTransactions(store), last.ret[i].id)
                  < PositionIn(StoredTransactions(store), last.ret[j].id)
             /\ last.ret[i].id[2] > last.ret[j].id[2]

\* Three records of two dates are returned after a rename cascade, the stored
\* collection holding them in another order.
C9_Witness ==
  /\ last.op = "getTransactions"
  /\ Len(last.ret) = 3
  /\ last.ret[1].date = last.ret[2].date
  /\ Earlier(last.ret[3].date, last.ret[2].date)
  /\ last.ret # StoredTransactions(store)
  /\ \E i \in 1..3 : last.ret[i].category = "Meals"

\* C10: after addTransaction(x), getTransactions() holds a record equal to x in
\* every field but the generated id, placed before every record that was there
\* with an earlier date; every record that was there is still returned; and the
\* record addTransaction returned is the stored one.
C10_AddRoundTrip ==
  [][\A x \in LedgerDrafts :
       (last'.op = "addTransaction" /\ AddTransaction(x)) =>
         LET before == GetTransactionsOf(store, 0, 0, tzOffset)
             after == GetTransactionsOf(store', 0, 0, tzOffset)
             r == last'.ret
         IN /\ last'.ok
            /\ [f \in DOMAIN x |-> r[f]] = x
            /\ DOMAIN r = DOMAIN x \cup {"id"}
            /\ \A t \in Range(before) : t.id # r.id
            /\ r \in Range(after)
            /\ r \in Range(store'.tx.items)
            /\ Range(before) \subseteq Range(after)
            /\ Len(after) = Len(before) + 1
            /\ \A i, j \in 1..Len(after) :
                 (after[i] = r /\ Earlier(after[j].date, r.date)) => i < j]_vars

\* The record just added is returned between a later and an earlier one.
C10_Witness ==
  /\ last.op = "addTransaction"
  /\ LET all == GetTransactionsOf(store, 0, 0, tzOffset)
     IN /\ Len(all) = 3
        /\ all[2] = last.ret
        /\ Earlier(all[2].date, all[1].date)
        /\ Earlier(all[3].date, all[2].date)

(***************************************************************************)
(* SpecStats: the statistics of a ledger in three device zones, with       *)
(* amounts whose sums are and are not representable.                       *)
(***************************************************************************)
StatsDrafts ==
  {Draft("expense", "Food", 50, UNDEFINED, <<2024, 1, 5>>),
   Draft("income", "Salary", 2000, UNDEFINED, <<2024, 1, 1>>),
   Draft("expense", "Rent", Pow2(SigBits), UNDEFINED, <<2024, 1, 10>>),
   Draft("expense", "Food", 1, "tip", <<2024, 1, 3>>)}

StatsIds == {GenId("tx", n) : n \in 1..MaxStats}

StatsPeriods == {<<1, 2024>>, <<2, 2024>>, <<0, 0>>}

InitStats == InitIn(TimeZones)

NextStats ==
  \/ \E x \in StatsDrafts : nextId.tx <= MaxStats /\ AddTransaction(x)
  \/ \E id \in StatsIds : DeleteTransaction(id)
  \/ \E p \in StatsPeriods : GetTransactionStats(p[1], p[2])

SpecStats == InitStats /\ [][NextStats]_vars

(***************************************************************************)
(* Claims about the statistics (SpecStats).                                *)
(***************************************************************************)
\* The values of a record of numbers, added up as numbers.
RECURSIVE SumOfValues(_)
SumOfValues(f) ==
  IF DOMAIN f = {} THEN 0
  ELSE LET k == CHOOSE c \in DOMAIN f : TRUE
       IN NumAdd(f[k], SumOfValues([c \in DOMAIN f \ {k} |-> f[c]]))

\* The values of a record of numbers, added up exactly.
RECURSIVE ExactSumOfValues(_)
ExactSumOfValues(f) ==
  IF DOMAIN f = {} THEN 0
  ELSE LET k == CHOOSE c \in DOMAIN f : TRUE
       IN f[k] + ExactSumOfValues([c \in DOMAIN f \ {k} |-> f[c]])

\* C6 as stated: the values of expensesByCategory sum to totalExpense, for every
\* stored set of transactions and every period.
\* The sum is taken either way: as numbers or exactly.
C6_BreakdownSumsToTotal ==
  last.op = "getTransactionStats" =>
    \/ SumOfValues(last.ret.expensesByCategory) = last.ret.totalExpense
    \/ ExactSumOfValues(last.ret.expensesByCategory) = last.ret.totalExpense

\* The ledger of the scenario: {expense, Food, 50, 2024-01-05} and
\* {income, Salary, 2000, 2024-01-01}, and nothing else.
ScenarioLedger ==
  /\ Len(StoredTransactions(store)) = 2
  /\ \E t \in Range(StoredTransactions(store)) :
       t.type = "expense" /\ t.category = "Food" /\ t.amount = 50 /\ t.date = <<2024, 1, 5>>
  /\ \E t \in Range(StoredTransactions(store)) :
       t.type = "income" /\ t.category = "Salary" /\ t.amount = 2000
         /\ t.date = <<2024, 1, 1>>

\* C7 as stated: totalIncome and totalExpense are the sums of the amounts of the
\* income and of the expense transactions that getTransactions(month, year)
\* returns, netBalance is their difference, and the scenario ledger gives
\* {2000, 50, 1950, {Food: 50}} for (1, 2024).
C7_StatsTotals ==
  [][\A p \in StatsPeriods :
       (last'.op = "getTransactionStats" /\ GetTransactionStats(p[1], p[2])) =>
         LET returned == GetTransactionsOf(store, p[1], p[2], tzOffset)
             r == last'.ret
         IN /\ r.totalIncome = SumFrom(0, SelectSeq(returned, IsIncome))
            /\ r.totalExpense = SumFrom(0, SelectSeq(returned, IsExpense))
            /\ r.netBalance = NumSub(r.totalIncome, r.totalExpense)
            /\ (ScenarioLedger /\ p = <<1, 2024>>) =>
                 r = [totalIncome |-> 2000, totalExpense |-> 50, netBalance |-> 1950,
                      expensesByCategory |-> [c \in {"Food"} |-> 50]]]_vars

\* C11: deleteTransaction(id) completes without error; with an id that no stored
\* transaction has the ledger holds the same records, as many as before; with an
\* id that is present the records with that id are gone and no other record is.
C11_DeleteTransactionEffect ==
  [][\A id \in LedgerIds :
       (last'.op = "deleteTransaction" /\ DeleteTransaction(id)) =>
         LET before == StoredTransactions(store)
             after == StoredTransactions(store')
             Hit(t) == t.id = id
         IN /\ last'.ok
            /\ Range(after) = {t \in Range(before) : t.id # id}
            /\ Len(after) = Len(before) - Len(SelectSeq(before, Hit))
            /\ (\A t \in Range(before) : t.id # id) =>
                 (Range(after) = Range(before) /\ Len(after) = Len(before))]_vars

\* Two records were added and both are there after a deleteTransaction: its id
\* was not in the ledger.
C11_Witness ==
  /\ last.op = "deleteTransaction"
  /\ last.ok
  /\ nextId.tx = 3
  /\ Len(StoredTransactions(store)) = 2

(***************************************************************************)
(* SpecGoals: the goal store under additions, edits of all fields, toggles *)
(* and deletions, with ids that are and are not stored.                    *)
(***************************************************************************)
StoreGoalDrafts ==
  {GoalDraft("Gym", 500, "monthly", TRUE),
   GoalDraft("Food & Dining", 100, "yearly", FALSE)}

\* handleSaveGoal on an edited goal, and handleToggleGoal.
StoreGoalUpdates ==
  {GoalUpdates(Given("Travel"), Given(250), Given("weekly"), Given(TRUE)),
   GoalUpdates(NotGiven, NotGiven, NotGiven, Given(FALSE))}

StoreGoalIds == {GenId("goal", n) : n \in 1..MaxGoalStore}

InitGoals == InitIn({0})

NextGoals ==
  \/ \E g \in StoreGoalDrafts : nextId.goal <= MaxGoalStore /\ AddBudgetGoal(g)
  \/ \E id \in StoreGoalIds, u \in StoreGoalUpdates : UpdateBudgetGoal(id, u)
  \/ \E id \in StoreGoalIds : DeleteBudgetGoal(id)
  \/ GetBudgetGoals

SpecGoals == InitGoals /\ [][NextGoals]_vars

(***************************************************************************)
(* Claims about the goal store (SpecGoals).                                *)
(***************************************************************************)
\* The goal is the field-wise merge of `stored` and `partial`, partial's fields winning.
IsMergeOf(goal, stored, partial) ==
  /\ DOMAIN goal = DOMAIN stored
  /\ \A f \in DOMAIN stored :
       goal[f] = IF f \in DOMAIN partial /\ partial[f] # NotGiven
                 THEN partial[f][1] ELSE stored[f]

\* Every goal was created after the goals that follow it.
NewestFirst(goals) ==
  \A i, j \in 1..Len(goals) : i < j => goals[i].createdAt > goals[j].createdAt

\* C12: updateBudgetGoal(id, partial) completes without error, puts the merge of
\* the stored goal and partial in the place of the goal with that id, leaves every
\* other goal and the order as they were, leaves the collection as it was when no
\* goal has that id, and getBudgetGoals still returns the goals newest first.
C12_UpdateGoalMerges ==
  [][\A id \in StoreGoalIds, u \in StoreGoalUpdates :
       (last'.op = "updateBudgetGoal" /\ UpdateBudgetGoal(id, u)) =>
         LET before == GetBudgetGoalsOf(store)
             after == GetBudgetGoalsOf(store')
         IN /\ last'.ok
            /\ Len(after) = Len(before)
            /\ \A i \in 1..Len(before) :
                 IF before[i].id = id
                 THEN IsMergeOf(after[i], before[i], u)
                 ELSE after[i] = before[i]
            /\ (\A g \in Range(before) : g.id # id) => after = before
            /\ NewestFirst(after)]_vars

\* The second of three goals has been edited, the first and the third have not.
C12_Witness ==
  /\ last.op = "updateBudgetGoal"
  /\ LET goals == GetBudgetGoalsOf(store)
     IN /\ Len(goals) = 3
        /\ goals[2].category = "Travel" /\ goals[2].amount = 250
        /\ goals[1].category # "Travel"
        /\ goals[3].category # "Travel"
        /\ NewestFirst(goals)

(***************************************************************************)
(* Claims about the category registry (Spec).                              *)
(***************************************************************************)
\* The list is the default set: the 10 expense names, then the 6 income names,
\* none of them custom.
IsDefaultSet(cats) ==
  /\ Len(cats) = 16
  /\ [i \in 1..Len(cats) |-> cats[i].name]
       = <<"Food & Dining", "Transportation", "Shopping", "Entertainment",
           "Healthcare", "Utilities", "Housing", "Education", "Travel", "Other",
           "Salary", "Freelance", "Investment", "Business", "Gift", "Other Income">>
  /\ \A i \in 1..Len(cats) :
       /\ cats[i].type = (IF i <= 10 THEN "expense" ELSE "income")
       /\ ~cats[i].isCustom
  /\ \A i, j \in 1..Len(cats) : cats[i].id = cats[j].id => i = j

\* C13: getCategories on a store without the categories key persists and returns
\* exactly the default set; with the key present it returns the stored list and
\* writes nothing, so added categories and renames survive it.
C13_GetCategoriesSeedsOnce ==
  [][(last'.op = "getCategories" /\ GetCategories) =>
       /\ last'.ok
       /\ store'.tx = store.tx
       /\ store'.goals = store.goals
       /\ IF store.cats.has
          THEN last'.ret = store.cats.items /\ store' = store
          ELSE IsDefaultSet(last'.ret) /\ store'.cats = Holding(last'.ret)]_vars

\* getCategories has returned a list that holds a custom category and a renamed
\* default one.
C13_Witness ==
  /\ last.op = "getCategories"
  /\ last.ret = store.cats.items
  /\ Len(last.ret) = 17
  /\ \E c \in Range(last.ret) : c.isCustom
  /\ \E c \in Range(last.ret) : ~c.isCustom /\ c.name = "Fitness"

\* C14: updateCategory(id, updates) with an id that no stored category has fails
\* with the not-found error; the transactions and the goals are as they were and
\* the category list is the one that was there, no record of it changed.
C14_UpdateUnknownCategory ==
  [][\A id \in CategoryIds, u \in CategoryUpdateSet :
       (last'.op = "updateCategory" /\ UpdateCategory(id, u) /\ ~HasCategory(id)) =>
         /\ ~last'.ok
         /\ last'.ret = "Category not found"
         /\ store'.tx = store.tx
         /\ store'.goals = store.goals
         /\ GetCategoriesOn(store', nextId.cat).ret = CategoriesSeen
         /\ store.cats.has => store' = store]_vars

\* updateCategory has failed on the id of a category that was deleted, with
\* transactions, goals and categories stored.
C14_Witness ==
  /\ last.op = "updateCategory"
  /\ ~last.ok
  /\ last.ret = "Category not found"
  /\ nextId.cat > 1
  /\ store.cats.has /\ Len(store.cats.items) = 16
  /\ StoredTransactions(store) # <<>>
  /\ GetBudgetGoalsOf(store) # <<>>

\* C15 as stated: updateCategory on a category whose isCustom is false is
\* rejected with an error, as deleteCategory is, and leaves the name and the
\* type of that category as they were.
C15_DefaultUpdateRejected ==
  [][\A id \in CategoryIds, u \in CategoryUpdateSet :
       (/\ last'.op = "updateCategory"
        /\ UpdateCategory(id, u)
        /\ HasCategory(id)
        /\ ~CategoryWith(id).isCustom)
       => /\ ~last'.ok
          /\ \A c \in Range(store'.cats.items) :
               c.id = id => (c.name = CategoryWith(id).name
                             /\ c.type = CategoryWith(id).type)]_vars

(***************************************************************************)
(* The Customize Categories screen.  Its list `categories` is the one of   *)
(* the last loadCategories, which runs when the screen is mounted and at   *)
(* the end of every handler that changed the store: the stored list.       *)
(***************************************************************************)
\* String.prototype.trim on the texts the form is given.
Trim(text) ==
  CASE text = " gym " -> "gym"
    [] text = "   " -> ""
    [] OTHER -> text

\* String.prototype.toLowerCase on the names of the model.
ToLowerCase(name) ==
  CASE name = "Gym" -> "gym"
    [] name = "Fitness" -> "fitness"
    [] name = "Meals" -> "meals"
    [] name = "Food & Dining" -> "food & dining"
    [] name = "Transportation" -> "transportation"
    [] name = "Shopping" -> "shopping"
    [] name = "Entertainment" -> "entertainment"
    [] name = "Healthcare" -> "healthcare"
    [] name = "Utilities" -> "utilities"
    [] name = "Housing" -> "housing"
    [] name = "Education" -> "education"
    [] name = "Travel" -> "travel"
    [] name = "Other" -> "other"
    [] name = "Salary" -> "salary"
    [] name = "Freelance" -> "freelance"
    [] name = "Investment" -> "investment"
    [] name = "Business" -> "business"
    [] name = "Gift" -> "gift"
    [] name = "Other Income" -> "other income"
    [] OTHER -> name

\* Mutant: the names are compared as they are written.
NameTaken_CaseSensitive(categories, name, editing) ==
  \E i \in 1..Len(categories) :
    /\ categories[i].name = Trim(name)
    /\ (editing = NotGiven \/ categories[i].id # editing[1].id)

\* categories.some(cat => cat.name.toLowerCase() === formData.name.trim().toLowerCase()
\*                        && cat.id !== editingCategory?.id)
NameTaken(categories, name, editing) ==
  \E i \in 1..Len(categories) :
    /\ ToLowerCase(categories[i].name) = ToLowerCase(Trim(name))
    /\ (editing = NotGiven \/ categories[i].id # editing[1].id)

\* handleSaveCategory with the form holding name and type; editing is <<>> for
\* the Add button and <<category>> for the pencil of that category.
HandleSaveCategoryOn(st, categories, editing, name, type, id, now, tz) ==
  IF Trim(name) = ""
  THEN [ok |-> FALSE, error |-> "Please enter a category name", store |-> st]
  ELSE IF NameTaken(categories, name, editing)
  THEN [ok |-> FALSE, error |-> "A category with this name already exists", store |-> st]
  ELSE IF editing # NotGiven
  THEN UpdateCategoryOn(st, editing[1].id,
                        CategoryUpdates(Given(Trim(name)), Given(type)), now, tz)
  ELSE [ok |-> TRUE, error |-> "",
        store |-> AddCategoryOn(st, CategoryDraft(Trim(name), type, TRUE), id, now)]

\* handleDeleteCategory followed by the Delete button of its dialog.
HandleDeleteCategoryOn(st, category, now, tz) ==
  IF ~category.isCustom
  THEN [ok |-> FALSE, error |-> "Default categories cannot be deleted", store |-> st]
  ELSE DeleteCategoryOn(st, category.id, now, tz)

\* The Add button, the form and its Add button.
SaveNewCategory(name, type) ==
  LET res == HandleSaveCategoryOn(store, store.cats.items, NotGiven, name, type,
                                  GenId("cat", nextId.cat), nextId.cat, tzOffset)
  IN /\ store.cats.has
     /\ store' = res.store
     /\ nextId' = IF res.ok THEN [nextId EXCEPT !.cat = @ + 1] ELSE nextId
     /\ last' = Done("handleSaveCategory", res.ok, res.error)
     /\ refreshTrigger' = IF res.ok THEN TriggerRefresh(refreshTrigger) ELSE refreshTrigger
     /\ UNCHANGED <<tzOffset, calls, screens>>

\* The pencil of a listed category, the form and its Update button.
SaveEditedCategory(category, name, type) ==
  LET res == HandleSaveCategoryOn(store, store.cats.items, Given(category), name, type,
                                  GenId("cat", nextId.cat), nextId.cat, tzOffset)
  IN /\ store.cats.has
     /\ category \in Range(store.cats.items)
     /\ store' = res.store
     /\ last' = Done("handleSaveCategory", res.ok, res.error)
     /\ refreshTrigger' = IF res.ok THEN TriggerRefresh(refreshTrigger) ELSE refreshTrigger
     /\ UNCHANGED <<tzOffset, nextId, calls, screens>>

\* The trash button of a listed category and the confirmation.
PressDeleteCategory(category) ==
  LET res == HandleDeleteCategoryOn(store, category, nextId.cat, tzOffset)
  IN /\ store.cats.has
     /\ category \in Range(store.cats.items)
     /\ store' = res.store
     /\ last' = Done("handleDeleteCategory", res.ok, res.error)
     /\ refreshTrigger' = IF res.ok THEN TriggerRefresh(refreshTrigger) ELSE refreshTrigger
     /\ UNCHANGED <<tzOffset, nextId, calls, screens>>

(***************************************************************************)
(* SpecScreen: the category registry as the Customize Categories screen    *)
(* drives it: additions, renames, type changes and deletions, with names   *)
(* that differ in case and in surrounding blanks only.                     *)
(***************************************************************************)
\* Refresh signals in one behaviour.
MaxRefresh == 5

FormNames == {"Gym", " gym ", "Other", "   "}

FormTypes == {"expense", "income"}

\* The categories whose buttons are pressed: "Other" and the added ones.
ScreenIds == {GenId("cat", n) : n \in 1..MaxScreenCats} \cup {<<"expense", 9>>}

Pressable == {c \in Range(store.cats.items) : c.id \in ScreenIds}

InitScreen == InitIn({0})

NextScreen ==
  \/ GetCategories
  \/ \E name \in FormNames, type \in FormTypes :
       /\ nextId.cat <= MaxScreenCats
       /\ refreshTrigger < MaxRefresh
       /\ SaveNewCategory(name, type)
  \/ \E c \in Pressable, name \in FormNames, type \in FormTypes :
       refreshTrigger < MaxRefresh /\ SaveEditedCategory(c, name, type)
  \/ \E c \in Pressable : refreshTrigger < MaxRefresh /\ PressDeleteCategory(c)

SpecScreen == InitScreen /\ [][NextScreen]_vars

(***************************************************************************)
(* Claims about the screen (SpecScreen).                                   *)
(***************************************************************************)
\* C16: no two stored categories of the same type have names that are equal
\* ignoring case, after any additions, renames, type changes and deletions made
\* through the screen.
C16_NamesUniqueInType ==
  \A i, j \in 1..Len(store.cats.items) :
    (/\ i # j
     /\ store.cats.items[i].type = store.cats.items[j].type)
    => ToLowerCase(store.cats.items[i].name) # ToLowerCase(store.cats.items[j].name)

\* "Other" has been renamed and moved to the income type, an added category has
\* taken its name, and a save with a name differing in case only was refused.
C16_Witness ==
  /\ last.op = "handleSaveCategory"
  /\ ~last.ok
  /\ last.ret = "A category with this name already exists"
  /\ \E c \in Range(store.cats.items) :
       c.id = <<"expense", 9>> /\ c.name = "Gym" /\ c.type = "income"
  /\ \E c \in Range(store.cats.items) : c.isCustom /\ c.name = "Other"
  /\ nextId.cat = 3

(***************************************************************************)
(* SpecRefs: categories added, renamed and deleted while transactions and  *)
(* goals are created under the names of the categories stored then.        *)
(***************************************************************************)
StoredNames == {c.name : c \in Range(store.cats.items)}

RefNames == {"Gym", "Other", "Misc"}

RefCategoryDrafts == {CategoryDraft("Gym", "expense", TRUE)}

RefRenames == {CategoryUpdates(Given("Misc"), NotGiven)}

\* The ids of the added categories and of the default category "Other".
RefIds == {GenId("cat", n) : n \in 1..MaxCats} \cup {<<"expense", 9>>}

InitRefs == InitIn({0})

NextRefs ==
  \/ GetCategories
  \/ \E c \in RefCategoryDrafts : nextId.cat <= MaxCats /\ AddCategory(c)
  \/ \E id \in RefIds, u \in RefRenames : UpdateCategory(id, u)
  \/ \E id \in RefIds : DeleteCategory(id)
  \/ \E name \in RefNames \cap StoredNames :
       /\ nextId.tx <= MaxTx
       /\ AddTransaction(Draft("expense", name, 20, UNDEFINED, <<2024, 1, 5>>))
  \/ \E name \in RefNames \cap StoredNames :
       /\ nextId.goal <= MaxGoals
       /\ AddBudgetGoal(GoalDraft(name, 100, "monthly", TRUE))

SpecRefs == InitRefs /\ [][NextRefs]_vars

(***************************************************************************)
(* Claims about referential consistency (SpecRefs).                        *)
(***************************************************************************)
\* C17 as stated: every transaction's category and every goal's category is the
\* name of some category of the stored list, after any sequence of addCategory,
\* updateCategory, deleteCategory, addTransaction and addBudgetGoal in which the
\* transactions and goals are created under stored names.
C17_CategoriesReferToStored ==
  /\ \A t \in Range(StoredTransactions(store)) : t.category \in StoredNames
  /\ \A g \in Range(GetBudgetGoalsOf(store)) : g.category \in StoredNames

(***************************************************************************)
(* Store failures.  Every AsyncStorage call of the service is a call site; *)
(* a plan F is the set of call sites whose call throws when it is reached. *)
(* Each operation below is the operation of the service run under a plan:  *)
(* whether it returned or threw, what it returned, the store it left and   *)
(* the call sites that threw.                                              *)
(***************************************************************************)
RdTx == "getItem transactions"
WrTx == "setItem transactions"
RdGoals == "getItem goals"
WrGoals == "setItem goals"
RdCats == "getItem categories"
SeedCats == "setItem default categories"
WrCats == "setItem categories"
RmTx == "removeItem transactions"
RmGoals == "removeItem goals"
RmCats == "removeItem categories"

StorageError == "storage error"

\* catch (error) { ...; throw error }
Thrown(st, failed) ==
  [ok |-> FALSE, ret |-> StorageError, store |-> st, failed |-> failed]

Returned(ret, st, failed) ==
  [ok |-> TRUE, ret |-> ret, store |-> st, failed |-> failed]

\* getTransactions(month?, year?): its catch returns [].
GetTransactionsUnder(st, month, year, tz, F) ==
  IF RdTx \in F
  THEN Returned(<<>>, st, {RdTx})
  ELSE Returned(GetTransactionsOf(st, month, year, tz), st, {})

AddTransactionUnder(st, x, id, tz, F) ==
  LET existingTransactions == GetTransactionsUnder(st, 0, 0, tz, F)
      updatedTransactions == <<WithId(x, id)>> \o existingTransactions.ret
  IN IF WrTx \in F
     THEN Thrown(st, existingTransactions.failed \cup {WrTx})
     ELSE Returned(WithId(x, id), [st EXCEPT !.tx = Holding(updatedTransactions)],
                   existingTransactions.failed)

DeleteTransactionUnder(st, id, tz, F) ==
  LET transactions == GetTransactionsUnder(st, 0, 0, tz, F)
      Keep(t) == t.id # id
      updatedTransactions == SelectSeq(transactions.ret, Keep)
  IN IF WrTx \in F
     THEN Thrown(st, transactions.failed \cup {WrTx})
     ELSE Returned(UNDEFINED, [st EXCEPT !.tx = Holding(updatedTransactions)],
                   transactions.failed)

\* getBudgetGoals(): its catch returns [].
GetBudgetGoalsUnder(st, F) ==
  IF RdGoals \in F
  THEN Returned(<<>>, st, {RdGoals})
  ELSE Returned(GetBudgetGoalsOf(st), st, {})

AddBudgetGoalUnder(st, g, id, now, F) ==
  LET existingGoals == GetBudgetGoalsUnder(st, F)
      updatedGoals == <<NewGoal(g, id, now)>> \o existingGoals.ret
  IN IF WrGoals \in F
     THEN Thrown(st, existingGoals.failed \cup {WrGoals})
     ELSE Returned(NewGoal(g, id, now), [st EXCEPT !.goals = Holding(updatedGoals)],
                   existingGoals.failed)

UpdateBudgetGoalUnder(st, id, updates, F) ==
  LET goals == GetBudgetGoalsUnder(st, F)
      updatedGoals ==
        [i \in 1..Len(goals.ret) |->
           IF goals.ret[i].id = id THEN MergeGoal(goals.ret[i], updates)
           ELSE goals.ret[i]]
  IN IF WrGoals \in F
     THEN Thrown(st, goals.failed \cup {WrGoals})
     ELSE Returned(UNDEFINED, [st EXCEPT !.goals = Holding(updatedGoals)],
                   goals.failed)

DeleteBudgetGoalUnder(st, id, F) ==
  LET goals == GetBudgetGoalsUnder(st, F)
      Keep(g) == g.id # id
      updatedGoals == SelectSeq(goals.ret, Keep)
  IN IF WrGoals \in F
     THEN Thrown(st, goals.failed \cup {WrGoals})
     ELSE Returned(UNDEFINED, [st EXCEPT !.goals = Holding(updatedGoals)],
                   goals.failed)

\* checkBudgetAlerts(month?, year?): both reads have their own catch; what it
\* computes is what it computes on the lists the reads returned.
CheckBudgetAlertsUnder(st, month, year, tz, F) ==
  LET asRead == [st EXCEPT !.goals = IF RdGoals \in F THEN Absent ELSE @,
                           !.tx = IF RdTx \in F THEN Absent ELSE @]
  IN Returned(CheckBudgetAlertsOf(asRead, month, year, tz), st,
              F \cap {RdGoals, RdTx})

\* getCategories(): its catch returns [], also when the write of
\* initializeDefaultCategories throws.
GetCategoriesUnder(st, now, F) ==
  IF RdCats \in F THEN Returned(<<>>, st, {RdCats})
  ELSE IF st.cats.has THEN Returned(st.cats.items, st, {})
  ELSE IF SeedCats \in F THEN Returned(<<>>, st, {SeedCats})
  ELSE Returned(DefaultCategories(now),
                [st EXCEPT !.cats = Holding(DefaultCategories(now))], {})

AddCategoryUnder(st, c, id, now, F) ==
  LET categories == GetCategoriesUnder(st, now, F)
      updatedCategories == Append(categories.ret, NewCategory(c, id, now))
  IN IF WrCats \in F
     THEN Thrown(categories.store, categories.failed \cup {WrCats})
     ELSE Returned(NewCategory(c, id, now),
                   [categories.store EXCEPT !.cats = Holding(updatedCategories)],
                   categories.failed)

\* Mutant: a removal that throws puts back the keys removed before it.
ClearAllDataUnder_RollsBack(st, F) ==
  IF F \cap {RmTx, RmGoals, RmCats} # {}
  THEN Thrown(st, {CHOOSE k \in F \cap {RmTx, RmGoals, RmCats} :
                     \/ k = RmTx
                     \/ k = RmGoals /\ RmTx \notin F
                     \/ k = RmCats /\ RmTx \notin F /\ RmGoals \notin F})
  ELSE Returned(UNDEFINED, EmptyStore, {})

\* clearAllData(): three removals in one try block.
ClearAllDataUnder(st, F) ==
  IF RmTx \in F THEN Thrown(st, {RmTx})
  ELSE IF RmGoals \in F THEN Thrown([st EXCEPT !.tx = Absent], {RmGoals})
  ELSE IF RmCats \in F
       THEN Thrown([st EXCEPT !.tx = Absent, !.goals = Absent], {RmCats})
  ELSE Returned(UNDEFINED, EmptyStore, {})

(***************************************************************************)
(* The operations run under a plan.  last also keeps the call sites that   *)
(* threw and the store the operation started from.  An id generated for a  *)
(* record that was not stored is not counted in nextId.                    *)
(***************************************************************************)
Outcome(op, res, before) ==
  [op |-> op, ok |-> res.ok, ret |-> res.ret, failed |-> res.failed,
   before |-> before]

GetTransactionsFaulty(month, year, F) ==
  LET res == GetTransactionsUnder(store, month, year, tzOffset, F)
  IN /\ last' = Outcome("getTransactions", res, store)
     /\ UNCHANGED <<store, tzOffset, nextId, calls, refreshTrigger, screens>>

AddTransactionFaulty(x, F) ==
  LET res == AddTransactionUnder(store, x, GenId("tx", nextId.tx), tzOffset, F)
  IN /\ store' = res.store
     /\ nextId' = IF res.ok THEN [nextId EXCEPT !.tx = @ + 1] ELSE nextId
     /\ last' = Outcome("addTransaction", res, store)
     /\ UNCHANGED <<tzOffset, calls, refreshTrigger, screens>>

DeleteTransactionFaulty(id, F) ==
  LET res == DeleteTransactionUnder(store, id, tzOffset, F)
  IN /\ store' = res.store
     /\ last' = Outcome("deleteTransaction", res, store)
     /\ UNCHANGED <<tzOffset, nextId, calls, refreshTrigger, screens>>

GetBudgetGoalsFaulty(F) ==
  LET res == GetBudgetGoalsUnder(store, F)
  IN /\ last' = Outcome("getBudgetGoals", res, store)
     /\ UNCHANGED <<store, tzOffset, nextId, calls, refreshTrigger, screens>>

AddBudgetGoalFaulty(g, F) ==
  LET res == AddBudgetGoalUnder(store, g, GenId("goal", nextId.goal), nextId.goal, F)
  IN /\ store' = res.store
     /\ nextId' = IF res.ok THEN [nextId EXCEPT !.goal = @ + 1] ELSE nextId
     /\ last' = Outcome("addBudgetGoal", res, store)
     /\ UNCHANGED <<tzOffset, calls, refreshTrigger, screens>>

UpdateBudgetGoalFaulty(id, updates, F) ==
  LET res == UpdateBudgetGoalUnder(store, id, updates, F)
  IN /\ store' = res.store
     /\ last' = Outcome("updateBudgetGoal", res, store)
     /\ UNCHANGED <<tzOffset, nextId, calls, refreshTrigger, screens>>

DeleteBudgetGoalFaulty(id, F) ==
  LET res == DeleteBudgetGoalUnder(store, id, F)
  IN /\ store' = res.store
     /\ last' = Outcome("deleteBudgetGoal", res, store)
     /\ UNCHANGED <<tzOffset, nextId, calls, refreshTrigger, screens>>

CheckBudgetAlertsFaulty(month, year, F) ==
  LET res == CheckBudgetAlertsUnder(store, month, year, tzOffset, F)
  IN /\ last' = Outcome("checkBudgetAlerts", res, store)
     /\ UNCHANGED <<store, tzOffset, nextId, calls, refreshTrigger, screens>>

GetCategoriesFaulty(F) ==
  LET res == GetCategoriesUnder(store, nextId.cat, F)
  IN /\ store' = res.store
     /\ last' = Outcome("getCategories", res, store)
     /\ UNCHANGED <<tzOffset, nextId, calls, refreshTrigger, screens>>

AddCategoryFaulty(c, F) ==
  LET res == AddCategoryUnder(store, c, GenId("cat", nextId.cat), nextId.cat, F)
  IN /\ store' = res.store
     /\ nextId' = IF res.ok THEN [nextId EXCEPT !.cat = @ + 1] ELSE nextId
     /\ last' = Outcome("addCategory", res, store)
     /\ UNCHANGED <<tzOffset, calls, refreshTrigger, screens>>

ClearAllData(F) ==
  LET res == ClearAllDataUnder(store, F)
  IN /\ store' = res.store
     /\ last' = Outcome("clearAllData", res, store)
     /\ UNCHANGED <<tzOffset, nextId, calls, refreshTrigger, screens>>

(***************************************************************************)
(* SpecFaults: the ledger, the goal store, the registry and clearAllData   *)
(* over a store any of whose calls may throw.                              *)
(***************************************************************************)
MaxFaultTx == 2

MaxFaultIds == 1

FaultDrafts == {Draft("expense", "Gym", 90, UNDEFINED, <<2024, 1, 5>>)}

FaultGoalDrafts == {GoalDraft("Gym", 100, "monthly", TRUE)}

FaultGoalUpdates == {GoalUpdates(NotGiven, NotGiven, NotGiven, Given(FALSE))}

FaultCategoryDrafts == {CategoryDraft("Gym", "expense", TRUE)}

FaultTxIds == {GenId("tx", n) : n \in 1..MaxFaultTx}

FaultGoalIds == {GenId("goal", n) : n \in 1..MaxFaultIds}

InitFaults ==
  /\ store = EmptyStore
  /\ tzOffset = 0
  /\ nextId = [tx |-> 1, goal |-> 1, cat |-> 1]
  /\ last = Outcome("none", Returned(UNDEFINED, EmptyStore, {}), EmptyStore)
  /\ calls = NoCalls
  /\ refreshTrigger = 0
  /\ screens = NoScreens

NextFaults ==
  \/ \E F \in SUBSET {RdTx} : GetTransactionsFaulty(1, 2024, F)
  \/ \E x \in FaultDrafts, F \in SUBSET {RdTx, WrTx} :
       nextId.tx <= MaxFaultTx /\ AddTransactionFaulty(x, F)
  \/ \E id \in FaultTxIds, F \in SUBSET {RdTx, WrTx} : DeleteTransactionFaulty(id, F)
  \/ \E F \in SUBSET {RdGoals} : GetBudgetGoalsFaulty(F)
  \/ \E g \in FaultGoalDrafts, F \in SUBSET {RdGoals, WrGoals} :
       nextId.goal <= MaxFaultIds /\ AddBudgetGoalFaulty(g, F)
  \/ \E id \in FaultGoalIds, u \in FaultGoalUpdates, F \in SUBSET {RdGoals, WrGoals} :
       UpdateBudgetGoalFaulty(id, u, F)
  \/ \E id \in FaultGoalIds, F \in SUBSET {RdGoals, WrGoals} :
       DeleteBudgetGoalFaulty(id, F)
  \/ \E F \in SUBSET {RdGoals, RdTx} : CheckBudgetAlertsFaulty(1, 2024, F)
  \/ \E F \in SUBSET {RdCats, SeedCats} : GetCategoriesFaulty(F)
  \/ \E c \in FaultCategoryDrafts, F \in SUBSET {RdCats, SeedCats, WrCats} :
       nextId.cat <= MaxFaultIds /\ AddCategoryFaulty(c, F)
  \/ \E F \in SUBSET {RmTx, RmGoals, RmCats} : ClearAllData(F)

SpecFaults == InitFaults /\ [][NextFaults]_vars

(***************************************************************************)
(* Claims about store failures (SpecFaults).                               *)
(***************************************************************************)
\* C18 as stated: an operation during which a store call threw does not return
\* normally; the failure reaches its caller as an error.
C18_FailuresPropagate == last.failed # {} => ~last.ok

SingleCollectionMutations ==
  {"addTransaction", "deleteTransaction", "addBudgetGoal", "updateBudgetGoal",
   "deleteBudgetGoal", "addCategory"}

\* C19 as stated: when a store write of a single-collection mutation threw, the
\* operation threw and the three keys hold what they held before the operation.
C19_FailedWriteLeavesStore ==
  (/\ last.op \in SingleCollectionMutations
   /\ last.failed \cap {WrTx, WrGoals, SeedCats, WrCats} # {})
  => (~last.ok /\ store = last.before)

\* C20: clearAllData removes the transactions key, then the goals key, then the
\* categories key.  When it returns, the three keys are absent, getTransactions
\* and getBudgetGoals return [] and getCategories returns the defaults alone;
\* when the k-th removal throws, clearAllData throws, the keys before the k-th
\* are absent and the k-th and later keys hold what they held before.
C20_ClearAllData ==
  /\ last.op = "clearAllData" =>
       /\ last.ok =>
            /\ last.failed = {}
            /\ store = EmptyStore
            /\ GetTransactionsUnder(store, 0, 0, tzOffset, {}).ret = <<>>
            /\ GetBudgetGoalsUnder(store, {}).ret = <<>>
            /\ GetCategoriesUnder(store, nextId.cat, {}).ret
                 = DefaultCategories(nextId.cat)
       /\ ~last.ok => last.failed \in {{RmTx}, {RmGoals}, {RmCats}}
       /\ last.failed = {RmTx} => (~last.ok /\ store = last.before)
       /\ last.failed = {RmGoals} =>
            (~last.ok /\ store = [last.before EXCEPT !.tx = Absent])
       /\ last.failed = {RmCats} =>
            (~last.ok
             /\ store = [last.before EXCEPT !.tx = Absent, !.goals = Absent])
  /\ (/\ last.op \in {"getTransactions", "getBudgetGoals"}
      /\ last.before = EmptyStore
      /\ last.failed = {})
     => last.ret = <<>>
  /\ (/\ last.op = "getCategories"
      /\ last.before = EmptyStore
      /\ last.failed = {})
     => last.ret = DefaultCategories(nextId.cat)

\* The removal of the goals key threw after transactions, goals and a custom
\* category had been stored: the transactions are gone, the goals and the
\* categories are still there.
C20_Witness ==
  /\ last.op = "clearAllData"
  /\ ~last.ok
  /\ last.failed = {RmGoals}
  /\ Len(StoredTransactions(last.before)) = 2
  /\ ~store.tx.has
  /\ Len(GetBudgetGoalsOf(store)) = 1
  /\ Len(store.cats.items) = 17

\* The ids of the records that the three keys of st hold.
RecordIds(st) ==
  {r.id : r \in Range(st.tx.items) \cup Range(st.goals.items) \cup Range(st.cats.items)}

\* C28 as stated: when the read of the collection threw during a
\* single-collection mutation, either the operation threw and the store is
\* unchanged, or it returned and every record stored before, other than the one
\* it was asked to delete, is still stored.
C28_ReadFailureKeepsRecords ==
  (/\ last.op \in SingleCollectionMutations
   /\ last.failed \cap {RdTx, RdGoals, RdCats} # {})
  => \/ ~last.ok /\ store = last.before
     \/ /\ last.ok
        /\ LET lost == RecordIds(last.before) \ RecordIds(store)
           IN IF last.op \in {"deleteTransaction", "deleteBudgetGoal"}
              THEN Cardinality(lost) <= 1
              ELSE lost = {}

(***************************************************************************)
(* SpecBreakdown: the statistics of January 2024 over ledgers that hold    *)
(* expenses of amount 0, incomes under the name of an expense category,    *)
(* and records of another month.                                           *)
(***************************************************************************)
BreakdownPeriod == <<1, 2024>>

BreakdownDrafts ==
  {Draft("expense", "Gym", 0, UNDEFINED, <<2024, 1, 5>>),
   Draft("expense", "Gym", 40, UNDEFINED, <<2024, 1, 9>>),
   Draft("income", "Gym", 30, "refund", <<2024, 1, 12>>),
   Draft("expense", "Food", 25, UNDEFINED, <<2024, 2, 3>>)}

BreakdownIds == {GenId("tx", n) : n \in 1..MaxStats}

InitBreakdown == InitIn({0})

NextBreakdown ==
  \/ \E x \in BreakdownDrafts : nextId.tx <= MaxStats /\ AddTransaction(x)
  \/ \E id \in BreakdownIds : DeleteTransaction(id)
  \/ GetTransactionStats(BreakdownPeriod[1], BreakdownPeriod[2])

SpecBreakdown == InitBreakdown /\ [][NextBreakdown]_vars

(***************************************************************************)
(* Claims about the breakdown by category (SpecBreakdown).                 *)
(***************************************************************************)
StoredCategories == {t.category : t \in Range(StoredTransactions(store))}

\* C21 as stated: expensesByCategory has a key for a category exactly when the
\* period holds expenses of that category whose total is not 0, so incomes
\* create no key and no key has the value 0, whatever amounts (0 included) the
\* stored transactions have.
C21_BreakdownKeys ==
  last.op = "getTransactionStats" =>
    /\ DOMAIN last.ret.expensesByCategory
         = {c \in StoredCategories : SpentOn(c, BreakdownPeriod) # 0}
    /\ \A c \in DOMAIN last.ret.expensesByCategory :
         last.ret.expensesByCategory[c] # 0

(***************************************************************************)
(* The service call by call site.  A call started by a caller runs its     *)
(* synchronous code up to its next AsyncStorage call and stops there; each *)
(* step below is one AsyncStorage call of one call in flight, followed by  *)
(* the synchronous code up to the next one.  A call record keeps: op, id   *)
(* (generated or given), arg, now (the clock at its start), pc (the call   *)
(* site it is stopped at, "idle" once it has settled), rest (the call      *)
(* sites after pc), read (the collection last read), list (the category    *)
(* list it holds), from and to (the names of its cascade), ok and ret (how *)
(* it settled), failed (the call sites that threw), before (the store at   *)
(* its start), origin (the store at the start of the first of the          *)
(* consecutive failed calls with the same arguments that it repeats) and   *)
(* alone (no other call has been in flight since it started).              *)
(***************************************************************************)
\* Mutant: the category list is written before the cascade.
CascadeOrder_ListFirst == <<WrCats, RdTx, WrTx, RdGoals, WrGoals>>

\* Mutant: the category list is written before the goals are rewritten.
CascadeOrder_GoalsLast == <<RdTx, WrTx, WrCats, RdGoals, WrGoals>>

\* Mutant: the goals are rewritten before the transactions.
CascadeOrder_GoalsFirst == <<RdGoals, WrGoals, RdTx, WrTx, WrCats>>

\* The AsyncStorage calls of a cascade after getCategories, in program order.

CascadeOrder == <<RdTx, WrTx, RdGoals, WrGoals, WrCats>>

\* transactions.map / goals.map of the cascade helpers.
Retag(items, oldName, newName) ==
  [i \in 1..Len(items) |->
     IF items[i].category = oldName
     THEN [items[i] EXCEPT !.category = newName]
     ELSE items[i]]

NewCall(op, id, arg, now, sites, prev, st) ==
  [op |-> op, pc |-> Head(sites), rest |-> Tail(sites), id |-> id, arg |-> arg,
   now |-> now, read |-> <<>>, list |-> <<>>, from |-> "", to |-> "",
   ok |-> TRUE, ret |-> UNDEFINED, failed |-> {}, before |-> st,
   origin |-> IF /\ prev.op = op
                 /\ ~prev.ok
                 /\ prev.id = id
                 /\ prev.arg = arg
              THEN prev.origin ELSE st,
   alone |-> TRUE]

\* The call goes on to its next call site, or returns.
Advance(c, ret) ==
  IF c.rest = <<>>
  THEN [c EXCEPT !.pc = "idle", !.ok = TRUE, !.ret = ret]
  ELSE [c EXCEPT !.pc = Head(c.rest), !.rest = Tail(c.rest)]

\* throw error
Throws(c, error) ==
  [c EXCEPT !.pc = "idle", !.rest = <<>>, !.ok = FALSE, !.ret = error]

ThrowsAt(c, site) == [Throws(c, StorageError) EXCEPT !.failed = @ \cup {site}]

\* What the call returns when its last write is done.
Result(c) ==
  CASE c.op = "addTransaction" -> WithId(c.arg, c.id)
    [] c.op = "addBudgetGoal" -> NewGoal(c.arg, c.id, c.now)
    [] c.op = "addCategory" -> NewCategory(c.arg, c.id, c.now)
    [] OTHER -> UNDEFINED

\* Mutant: what was read is dropped, the collection written holds the new
\* record alone.
TransactionsToWrite_NewAlone(c) == <<WithId(c.arg, c.id)>>

\* The collection the call writes to the transactions key.
TransactionsToWrite(c) ==
  CASE c.op = "addTransaction" -> <<WithId(c.arg, c.id)>> \o c.read
    [] c.op = "deleteTransaction" ->
         LET Keep(t) == t.id # c.id IN SelectSeq(c.read, Keep)
    [] OTHER -> Retag(c.read, c.from, c.to)

\* The collection the call writes to the goals key.
GoalsToWrite(c) ==
  CASE c.op = "addBudgetGoal" -> <<NewGoal(c.arg, c.id, c.now)>> \o c.read
    [] c.op = "updateBudgetGoal" ->
         [i \in 1..Len(c.read) |->
            IF c.read[i].id = c.id THEN MergeGoal(c.read[i], c.arg) ELSE c.read[i]]
    [] c.op = "deleteBudgetGoal" ->
         LET Keep(g) == g.id # c.id IN SelectSeq(c.read, Keep)
    [] OTHER -> Retag(c.read, c.from, c.to)

\* The synchronous code that follows `await this.getCategories()`, given the
\* list it returned.
AfterGetCategories(c, categories) ==
  LET categoryIndex == FindIndex(categories, c.id)
      Keep(cat) == cat.id # c.id
  IN CASE c.op = "getCategories" ->
            [c EXCEPT !.pc = "idle", !.ok = TRUE, !.ret = categories,
                      !.list = categories]
       [] c.op = "addCategory" ->
            [c EXCEPT !.pc = WrCats, !.rest = <<>>,
                      !.list = Append(categories, NewCategory(c.arg, c.id, c.now))]
       [] c.op = "updateCategory" ->
            IF categoryIndex = 0 THEN Throws(c, "Category not found")
            ELSE LET oldCategory == categories[categoryIndex]
                     sites == IF NameChanged(oldCategory, c.arg)
                              THEN CascadeOrder ELSE <<WrCats>>
                 IN [c EXCEPT !.list = [categories EXCEPT ![categoryIndex] =
                                          MergeCategory(oldCategory, c.arg)],
                              !.from = oldCategory.name,
                              !.to = OrElse(c.arg.name, oldCategory.name),
                              !.pc = Head(sites), !.rest = Tail(sites)]
       [] c.op = "deleteCategory" ->
            IF categoryIndex = 0 THEN Throws(c, "Category not found")
            ELSE IF ~categories[categoryIndex].isCustom
                 THEN Throws(c, "Cannot delete default categories")
            ELSE [c EXCEPT !.list = SelectSeq(categories, Keep),
                           !.from = categories[categoryIndex].name,
                           !.to = "Other",
                           !.pc = Head(CascadeOrder), !.rest = Tail(CascadeOrder)]

\* The caller's call moves to c: when it has settled, last holds its outcome.
Moves(w, c) ==
  /\ calls' = [calls EXCEPT ![w] = c]
  /\ last' = IF c.pc = "idle" THEN Done(c.op, c.ok, c.ret) ELSE last

Free(w) == calls[w].pc = "idle"

\* The caller starts the call c, beside the calls in flight.
Started(w, c) ==
  calls' = [v \in Callers |->
              IF v = w THEN [c EXCEPT !.alone = \A u \in Callers \ {w} : Free(u)]
              ELSE IF Free(v) THEN calls[v]
              ELSE [calls[v] EXCEPT !.alone = FALSE]]

StartAddTransaction(w, x) ==
  /\ Free(w)
  /\ Started(w,
             NewCall("addTransaction", GenId("tx", nextId.tx), x, nextId.tx,
                         <<RdTx, WrTx>>, calls[w], store))
  /\ nextId' = [nextId EXCEPT !.tx = @ + 1]
  /\ UNCHANGED <<store, tzOffset, last, refreshTrigger, screens>>

StartDeleteTransaction(w, id) ==
  /\ Free(w)
  /\ Started(w,
             NewCall("deleteTransaction", id, UNDEFINED, nextId.tx,
                         <<RdTx, WrTx>>, calls[w], store))
  /\ UNCHANGED <<store, tzOffset, nextId, last, refreshTrigger, screens>>

StartAddBudgetGoal(w, g) ==
  /\ Free(w)
  /\ Started(w,
             NewCall("addBudgetGoal", GenId("goal", nextId.goal), g, nextId.goal,
                         <<RdGoals, WrGoals>>, calls[w], store))
  /\ nextId' = [nextId EXCEPT !.goal = @ + 1]
  /\ UNCHANGED <<store, tzOffset, last, refreshTrigger, screens>>

StartUpdateBudgetGoal(w, id, updates) ==
  /\ Free(w)
  /\ Started(w,
             NewCall("updateBudgetGoal", id, updates, nextId.goal,
                         <<RdGoals, WrGoals>>, calls[w], store))
  /\ UNCHANGED <<store, tzOffset, nextId, last, refreshTrigger, screens>>

StartDeleteBudgetGoal(w, id) ==
  /\ Free(w)
  /\ Started(w,
             NewCall("deleteBudgetGoal", id, UNDEFINED, nextId.goal,
                         <<RdGoals, WrGoals>>, calls[w], store))
  /\ UNCHANGED <<store, tzOffset, nextId, last, refreshTrigger, screens>>

StartGetCategories(w) ==
  /\ Free(w)
  /\ Started(w,
             NewCall("getCategories", <<"none", 0>>, UNDEFINED, nextId.cat,
                         <<RdCats>>, calls[w], store))
  /\ UNCHANGED <<store, tzOffset, nextId, last, refreshTrigger, screens>>

StartAddCategory(w, c) ==
  /\ Free(w)
  /\ Started(w,
             NewCall("addCategory", GenId("cat", nextId.cat), c, nextId.cat,
                         <<RdCats>>, calls[w], store))
  /\ nextId' = [nextId EXCEPT !.cat = @ + 1]
  /\ UNCHANGED <<store, tzOffset, last, refreshTrigger, screens>>

StartUpdateCategory(w, id, updates) ==
  /\ Free(w)
  /\ Started(w,
             NewCall("updateCategory", id, updates, nextId.cat,
                         <<RdCats>>, calls[w], store))
  /\ UNCHANGED <<store, tzOffset, nextId, last, refreshTrigger, screens>>

StartDeleteCategory(w, id) ==
  /\ Free(w)
  /\ Started(w,
             NewCall("deleteCategory", id, UNDEFINED, nextId.cat,
                         <<RdCats>>, calls[w], store))
  /\ UNCHANGED <<store, tzOffset, nextId, last, refreshTrigger, screens>>

\* AsyncStorage.getItem(STORAGE_KEY) inside getTransactions(), whose catch
\* returns [].
GetItemTransactions(w, fails) ==
  LET c == calls[w]
      transactions == IF fails THEN <<>> ELSE GetTransactionsOf(store, 0, 0, tzOffset)
      failed == IF fails THEN c.failed \cup {RdTx} ELSE c.failed
  IN /\ c.pc = RdTx
     /\ Moves(w, Advance([c EXCEPT !.read = transactions, !.failed = failed],
                         Result(c)))
     /\ UNCHANGED <<store, tzOffset, nextId, refreshTrigger, screens>>

\* AsyncStorage.setItem(STORAGE_KEY, ...)
SetItemTransactions(w, fails) ==
  LET c == calls[w]
  IN /\ c.pc = WrTx
     /\ store' = IF fails THEN store
                 ELSE [store EXCEPT !.tx = Holding(TransactionsToWrite(c))]
     /\ Moves(w, IF fails THEN ThrowsAt(c, WrTx) ELSE Advance(c, Result(c)))
     /\ UNCHANGED <<tzOffset, nextId, refreshTrigger, screens>>

\* AsyncStorage.getItem(GOALS_STORAGE_KEY) inside getBudgetGoals(), whose catch
\* returns [].
GetItemGoals(w, fails) ==
  LET c == calls[w]
      goals == IF fails THEN <<>> ELSE GetBudgetGoalsOf(store)
      failed == IF fails THEN c.failed \cup {RdGoals} ELSE c.failed
  IN /\ c.pc = RdGoals
     /\ Moves(w, Advance([c EXCEPT !.read = goals, !.failed = failed], Result(c)))
     /\ UNCHANGED <<store, tzOffset, nextId, refreshTrigger, screens>>

\* AsyncStorage.setItem(GOALS_STORAGE_KEY, ...)
SetItemGoals(w, fails) ==
  LET c == calls[w]
  IN /\ c.pc = WrGoals
     /\ store' = IF fails THEN store
                 ELSE [store EXCEPT !.goals = Holding(GoalsToWrite(c))]
     /\ Moves(w, IF fails THEN ThrowsAt(c, WrGoals) ELSE Advance(c, Result(c)))
     /\ UNCHANGED <<tzOffset, nextId, refreshTrigger, screens>>

\* AsyncStorage.getItem(CATEGORIES_STORAGE_KEY) inside getCategories(), whose
\* catch returns []; an absent key leads to initializeDefaultCategories.
GetItemCategories(w, fails) ==
  LET c == calls[w]
  IN /\ c.pc = RdCats
     /\ Moves(w, IF fails
                 THEN AfterGetCategories([c EXCEPT !.failed = @ \cup {RdCats}], <<>>)
                 ELSE IF store.cats.has
                      THEN AfterGetCategories(c, store.cats.items)
                      ELSE [c EXCEPT !.pc = SeedCats])
     /\ UNCHANGED <<store, tzOffset, nextId, refreshTrigger, screens>>

\* AsyncStorage.setItem of initializeDefaultCategories; when it throws, the
\* catch of getCategories returns [].
SetItemDefaultCategories(w, fails) ==
  LET c == calls[w]
  IN /\ c.pc = SeedCats
     /\ store' = IF fails THEN store
                 ELSE [store EXCEPT !.cats = Holding(DefaultCategories(c.now))]
     /\ Moves(w, IF fails
                 THEN AfterGetCategories([c EXCEPT !.failed = @ \cup {SeedCats}], <<>>)
                 ELSE AfterGetCategories(c, DefaultCategories(c.now)))
     /\ UNCHANGED <<tzOffset, nextId, refreshTrigger, screens>>

\* AsyncStorage.setItem(CATEGORIES_STORAGE_KEY, ...) of addCategory,
\* updateCategory and deleteCategory.
SetItemCategories(w, fails) ==
  LET c == calls[w]
  IN /\ c.pc = WrCats
     /\ store' = IF fails THEN store ELSE [store EXCEPT !.cats = Holding(c.list)]
     /\ Moves(w, IF fails THEN ThrowsAt(c, WrCats) ELSE Advance(c, Result(c)))
     /\ UNCHANGED <<tzOffset, nextId, refreshTrigger, screens>>

(***************************************************************************)
(* SpecRace: two callers whose calls may be in flight together, over a     *)
(* store that does not throw.  Both add transactions; the first saves and  *)
(* toggles goals, the second deletes them.                                 *)
(***************************************************************************)
MaxRaceTx == 2

MaxRaceGoals == 1

RaceDrafts == {Draft("expense", "Gym", 20, UNDEFINED, <<2024, 1, 5>>)}

RaceGoalDrafts == {GoalDraft("Gym", 100, "monthly", TRUE)}

\* handleToggleGoal of an active goal.
RaceGoalUpdates == {GoalUpdates(NotGiven, NotGiven, NotGiven, Given(FALSE))}

RaceGoalIds == {GenId("goal", n) : n \in 1..MaxRaceGoals}

InitRace == InitIn({0})

NextRace ==
  \/ \E w \in Callers, x \in RaceDrafts :
       nextId.tx <= MaxRaceTx /\ StartAddTransaction(w, x)
  \/ \E g \in RaceGoalDrafts :
       nextId.goal <= MaxRaceGoals /\ StartAddBudgetGoal(1, g)
  \/ \E id \in RaceGoalIds, u \in RaceGoalUpdates : StartUpdateBudgetGoal(1, id, u)
  \/ \E id \in RaceGoalIds : StartDeleteBudgetGoal(2, id)
  \/ \E w \in Callers : GetItemTransactions(w, FALSE)
  \/ \E w \in Callers : SetItemTransactions(w, FALSE)
  \/ \E w \in Callers : GetItemGoals(w, FALSE)
  \/ \E w \in Callers : SetItemGoals(w, FALSE)

SpecRace == InitRace /\ [][NextRace]_vars

(***************************************************************************)
(* Claims about calls in flight together (SpecRace).                       *)
(***************************************************************************)
IdsOf(items) == {r.id : r \in Range(items)}

Settled(w) == calls[w].pc = "idle" /\ calls[w].op # "none"

\* The goal with that id is stored and inactive.
ToggledOff(st, id) ==
  \E g \in Range(GetBudgetGoalsOf(st)) : g.id = id /\ ~g.isActive

\* C22: when the last calls of the two callers have settled, neither has thrown.
\* Of two addTransaction calls at least the one that wrote last has its record
\* stored, and both have when each ran with no other call in flight.
\* Of an updateBudgetGoal and a deleteBudgetGoal of a goal stored when both
\* started, the goal is either gone or stored with the update, and it is gone
\* when each ran with no other call in flight.
C22_LaterWriteWins ==
  \A w, v \in Callers :
    (w # v /\ Settled(w) /\ Settled(v)) =>
      /\ calls[w].ok /\ calls[v].ok
      /\ (calls[w].op = "addTransaction" /\ calls[v].op = "addTransaction") =>
           /\ calls[w].id \in IdsOf(StoredTransactions(store))
                \/ calls[v].id \in IdsOf(StoredTransactions(store))
           /\ (calls[w].alone /\ calls[v].alone) =>
                {calls[w].id, calls[v].id} \subseteq IdsOf(StoredTransactions(store))
      /\ (/\ calls[w].op = "updateBudgetGoal"
          /\ calls[v].op = "deleteBudgetGoal"
          /\ calls[w].id = calls[v].id
          /\ calls[w].id \in IdsOf(GetBudgetGoalsOf(calls[w].before))
          /\ calls[w].id \in IdsOf(GetBudgetGoalsOf(calls[v].before))) =>
           /\ calls[w].id \notin IdsOf(GetBudgetGoalsOf(store))
                \/ ToggledOff(store, calls[w].id)
           /\ (calls[w].alone /\ calls[v].alone) =>
                calls[w].id \notin IdsOf(GetBudgetGoalsOf(store))

\* Two addTransaction calls have both returned and one record only is stored.
C22_Witness ==
  /\ Settled(1) /\ Settled(2)
  /\ calls[1].op = "addTransaction" /\ calls[2].op = "addTransaction"
  /\ calls[1].ok /\ calls[2].ok
  /\ IdsOf(StoredTransactions(store)) = {calls[2].id}
  /\ calls[1].id # calls[2].id

(***************************************************************************)
(* SpecCascade: one caller, each call awaited, run one AsyncStorage call   *)
(* at a time over a store whose writes may throw: a custom category with   *)
(* transactions and a goal under its name is renamed and deleted, and a    *)
(* call that threw may be repeated.                                        *)
(***************************************************************************)
\* Transactions, goals and categories added in one behaviour, each.
MaxCascade == 1

CascadeDrafts ==
  {Draft("expense", "Gym", 20, UNDEFINED, <<2024, 1, 5>>),
   Draft("expense", "Other", 5, UNDEFINED, <<2024, 1, 9>>)}

CascadeGoalDrafts == {GoalDraft("Gym", 100, "monthly", TRUE)}

CascadeCategoryDrafts == {CategoryDraft("Gym", "expense", TRUE)}

CascadeRenames == {CategoryUpdates(Given("Fitness"), NotGiven)}

CascadeIds == {GenId("cat", n) : n \in 1..MaxCascade}

InitCascade == InitIn({0})

NextCascade ==
  \/ StartGetCategories(1)
  \/ \E c \in CascadeCategoryDrafts : nextId.cat <= MaxCascade /\ StartAddCategory(1, c)
  \/ \E x \in CascadeDrafts : nextId.tx <= MaxCascade /\ StartAddTransaction(1, x)
  \/ \E g \in CascadeGoalDrafts : nextId.goal <= MaxCascade /\ StartAddBudgetGoal(1, g)
  \/ \E id \in CascadeIds, u \in CascadeRenames : StartUpdateCategory(1, id, u)
  \/ \E id \in CascadeIds : StartDeleteCategory(1, id)
  \/ GetItemTransactions(1, FALSE)
  \/ \E fails \in BOOLEAN : SetItemTransactions(1, fails)
  \/ GetItemGoals(1, FALSE)
  \/ \E fails \in BOOLEAN : SetItemGoals(1, fails)
  \/ GetItemCategories(1, FALSE)
  \/ SetItemDefaultCategories(1, FALSE)
  \/ \E fails \in BOOLEAN : SetItemCategories(1, fails)

SpecCascade == InitCascade /\ [][NextCascade]_vars

(***************************************************************************)
(* Claims about the cascades step by step (SpecCascade).                   *)
(***************************************************************************)
\* The caller's call is a cascade that has read the category list.
InCascade(c) ==
  /\ c.op \in {"updateCategory", "deleteCategory"}
  /\ c.from # ""
  /\ c.from # c.to

Carries(items, name) == \E r \in Range(items) : r.category = name

\* The stored category list shows what the cascade is about to write: the new
\* name of the renamed category, or no entry for the deleted one.
ListShowsChange(c) ==
  IF c.op = "updateCategory"
  THEN \E cat \in Range(store.cats.items) : cat.id = c.id /\ cat.name = c.to
  ELSE c.id \notin IdsOf(store.cats.items)

\* C23: from the moment a rename or a delete has read the category list until
\* the next call starts, the stored list does not show the change while a stored
\* transaction or goal carries the old name; the goals are as they were while
\* the transactions are being rewritten, and the transactions carry the old
\* name no more once the goals are being rewritten.
C23_ListWrittenLast ==
  LET c == calls[1]
  IN InCascade(c) =>
       /\ ListShowsChange(c) =>
            /\ ~Carries(StoredTransactions(store), c.from)
            /\ ~Carries(GetBudgetGoalsOf(store), c.from)
       /\ c.pc \in {RdTx, WrTx} => store.goals = c.before.goals
       /\ c.pc \in {RdGoals, WrGoals, WrCats} =>
            ~Carries(StoredTransactions(store), c.from)
       /\ c.pc = WrCats => ~Carries(GetBudgetGoalsOf(store), c.from)

\* A rename has rewritten the transactions and the goals and is about to write
\* the list, which still has the old name.
C23_Witness ==
  /\ calls[1].op = "updateCategory"
  /\ calls[1].pc = WrCats
  /\ Carries(StoredTransactions(store), "Fitness")
  /\ Carries(GetBudgetGoalsOf(store), "Fitness")
  /\ \E cat \in Range(store.cats.items) : cat.name = "Gym"

\* C24: when the goals write or the category-list write of a rename or a delete
\* throws, the call throws and the rewrites done before stay stored: the
\* transactions are the retagged ones (in the order getTransactions returns),
\* and the goals (when it was their write that threw) and the category list
\* are as they were when the call started.
C24_CascadeNotAtomic ==
  LET c == calls[1]
  IN (InCascade(c) /\ c.pc = "idle" /\ c.failed # {}) =>
       /\ ~c.ok
       /\ last = Done(c.op, FALSE, StorageError)
       /\ store.cats = c.before.cats
       /\ c.failed = {WrTx} => store = c.before
       /\ c.failed \in {{WrGoals}, {WrCats}} =>
            store.tx.items
              = Retag(GetTransactionsOf(c.before, 0, 0, tzOffset), c.from, c.to)
       /\ c.failed = {WrGoals} => store.goals = c.before.goals
       /\ c.failed = {WrCats} =>
            store.goals.items = Retag(GetBudgetGoalsOf(c.before), c.from, c.to)

\* The goals write of a rename threw: the transaction carries the new name, the
\* goal and the category list the old one.
C24_Witness ==
  /\ calls[1].op = "updateCategory"
  /\ calls[1].pc = "idle"
  /\ calls[1].failed = {WrGoals}
  /\ Carries(StoredTransactions(store), "Fitness")
  /\ ~Carries(StoredTransactions(store), "Gym")
  /\ Carries(GetBudgetGoalsOf(store), "Gym")
  /\ \E cat \in Range(store.cats.items) : cat.name = "Gym"

\* C29: a rename or a delete that returns, alone or after calls with the same
\* arguments that threw, leaves the store that one call that does not throw
\* leaves from the store the first of them started with.
C29_RetryRepairs ==
  LET c == calls[1]
  IN (c.op \in {"updateCategory", "deleteCategory"} /\ c.pc = "idle" /\ c.ok) =>
       store = IF c.op = "updateCategory"
               THEN UpdateCategoryOn(c.origin, c.id, c.arg, c.now, tzOffset).store
               ELSE DeleteCategoryOn(c.origin, c.id, c.now, tzOffset).store

\* A delete returned after a first attempt had rewritten the transactions and
\* thrown.
C29_Witness ==
  /\ calls[1].op = "deleteCategory"
  /\ calls[1].pc = "idle"
  /\ calls[1].ok
  /\ Carries(StoredTransactions(calls[1].origin), "Gym")
  /\ ~Carries(StoredTransactions(calls[1].before), "Gym")
  /\ Carries(GetBudgetGoalsOf(calls[1].before), "Gym")
  /\ Len(GetBudgetGoalsOf(store)) = 1
  /\ ~Carries(GetBudgetGoalsOf(store), "Gym")

(***************************************************************************)
(* SpecGoalAmounts: goals whose amount is 0, negative or positive, with    *)
(* and without spending in January 2024, and the alerts of that month.     *)
(***************************************************************************)
AmountPeriod == <<1, 2024>>

AmountDrafts ==
  {Draft("expense", "Gym", 40, UNDEFINED, <<2024, 1, 5>>),
   Draft("expense", "Gym", 60, UNDEFINED, <<2024, 2, 5>>)}

AmountGoalDrafts ==
  {GoalDraft("Gym", 0, "monthly", TRUE),
   GoalDraft("Gym", 0 - 50, "monthly", TRUE),
   GoalDraft("Travel", 0, "monthly", TRUE),
   GoalDraft("Gym", 50, "monthly", TRUE)}

AmountGoalIds == {GenId("goal", n) : n \in 1..MaxAlertGoals}

InitAmounts == InitIn({0})

NextAmounts ==
  \/ \E x \in AmountDrafts : nextId.tx <= MaxTx /\ AddTransaction(x)
  \/ \E g \in AmountGoalDrafts : nextId.goal <= MaxAlertGoals /\ AddBudgetGoal(g)
  \/ \E id \in AmountGoalIds : DeleteBudgetGoal(id)
  \/ CheckBudgetAlerts(AmountPeriod[1], AmountPeriod[2])

SpecGoalAmounts == InitAmounts /\ [][NextAmounts]_vars

(***************************************************************************)
(* Claims about goals without a positive amount (SpecGoalAmounts).         *)
(***************************************************************************)
\* C25: checkBudgetAlerts returns whatever amounts the goals have; an active
\* goal of amount 0 is in exceededGoals, and not in warningGoals, when its
\* category has spending in the period, and in neither list when it has none;
\* an active goal of negative amount is in neither list.
C25_NonPositiveGoalAmounts ==
  last.op = "checkBudgetAlerts" =>
    /\ last.ok
    /\ \A g \in Range(GetBudgetGoalsOf(store)) :
         LET spent == SpentOn(g.category, AmountPeriod)
             exceeded == Listed(last.ret.exceededGoals, g)
             warning == Listed(last.ret.warningGoals, g)
         IN /\ (g.isActive /\ g.amount = 0 /\ spent > 0) => (exceeded /\ ~warning)
            /\ (g.isActive /\ g.amount = 0 /\ spent = 0) => (~exceeded /\ ~warning)
            /\ (g.isActive /\ g.amount < 0) => (~exceeded /\ ~warning)

\* Alerts evaluated with a goal of amount 0 that is listed as exceeded beside a
\* goal of negative amount for the same category that is not listed.
C25_Witness ==
  /\ last.op = "checkBudgetAlerts"
  /\ \E g \in Range(GetBudgetGoalsOf(store)) :
       g.amount = 0 /\ Listed(last.ret.exceededGoals, g)
  /\ \E g \in Range(GetBudgetGoalsOf(store)) :
       /\ g.amount < 0
       /\ SpentOn(g.category, AmountPeriod) > 0
       /\ ~Listed(last.ret.exceededGoals, g)

(***************************************************************************)
(* SpecForm: the Add Transaction screen.  The texts of the form are        *)
(* sequences of characters; parseFloat yields a decimal num / den or NaN.  *)
(* The texts have no exponent part and do not spell Infinity.              *)
(***************************************************************************)
MaxFormTx == 2    \* transactions submitted in one behaviour of the form specification

Digits == {"0", "1", "2", "3", "4", "5", "6", "7", "8", "9"}

DigitValue(ch) ==
  CASE ch = "0" -> 0 [] ch = "1" -> 1 [] ch = "2" -> 2 [] ch = "3" -> 3
    [] ch = "4" -> 4 [] ch = "5" -> 5 [] ch = "6" -> 6 [] ch = "7" -> 7
    [] ch = "8" -> 8 [] ch = "9" -> 9

RECURSIVE Pow10(_)
Pow10(n) == IF n = 0 THEN 1 ELSE 10 * Pow10(n - 1)

NaN == [kind |-> "NaN", num |-> 0, den |-> 1]
Null == [kind |-> "null", num |-> 0, den |-> 1]
Decimal(num, den) == [kind |-> "number", num |-> num, den |-> den]

\* The text without its leading white space.
RECURSIVE TrimStart(_)
TrimStart(text) ==
  IF text # <<>> /\ Head(text) = " " THEN TrimStart(Tail(text)) ELSE text

\* The digits the text starts with.
RECURSIVE LeadingDigits(_)
LeadingDigits(text) ==
  IF text # <<>> /\ Head(text) \in Digits
  THEN <<Head(text)>> \o LeadingDigits(Tail(text))
  ELSE <<>>

RECURSIVE DigitsValue(_, _)
DigitsValue(acc, digits) ==
  IF digits = <<>> THEN acc
  ELSE DigitsValue(10 * acc + DigitValue(Head(digits)), Tail(digits))

Drop(text, n) == SubSeq(text, n + 1, Len(text))

\* parseFloat(text): the longest prefix, after leading white space, that is a
\* decimal literal: a sign, digits, and a point with digits; NaN when there is
\* no digit in it.
ParseFloat(text) ==
  LET trimmed == TrimStart(text)
      signed == trimmed # <<>> /\ Head(trimmed) \in {"-", "+"}
      sign == IF trimmed # <<>> /\ Head(trimmed) = "-" THEN -1 ELSE 1
      unsigned == IF signed THEN Tail(trimmed) ELSE trimmed
      whole == LeadingDigits(unsigned)
      rest == Drop(unsigned, Len(whole))
      fraction == IF rest # <<>> /\ Head(rest) = "."
                  THEN LeadingDigits(Tail(rest)) ELSE <<>>
  IN IF whole = <<>> /\ fraction = <<>> THEN NaN
     ELSE Decimal(sign * (DigitsValue(0, whole) * Pow10(Len(fraction))
                          + DigitsValue(0, fraction)),
                  Pow10(Len(fraction)))

\* n <= 0 on numbers: every comparison with NaN is false.
AtMostZero(n) == n.kind = "number" /\ n.num <= 0

\* JSON.parse(JSON.stringify(n)): NaN is written as null.
JsonNumber(n) == IF n.kind = "NaN" THEN Null ELSE n

\* The form as mounted: useState of category, amount, description and date, the
\* date being today's.
Today == <<2024, 1, 5>>
NoDate == <<>>
BlankForm == [type |-> "expense", category |-> "", amount |-> <<>>,
              description |-> "", date |-> Today]

\* What is typed into the amount field.
AmountTexts ==
  {<<>>, <<"1", "2">>, <<"0">>, <<"-", "5">>, <<"1", ".", "5">>, <<".", "5">>,
   <<" ", "7">>, <<"0", ".", "0">>, <<".">>, <<"a", "b", "c">>, <<"7", "a">>,
   <<"-", ".", "2">>}

FormCategories == {"Gym"}
FormDates == {NoDate, Today}

SetCategory(cat) ==
  /\ screens' = [screens EXCEPT !.AddTransaction.category = cat]
  /\ UNCHANGED <<store, tzOffset, nextId, last, calls, refreshTrigger>>

SetAmount(text) ==
  /\ screens' = [screens EXCEPT !.AddTransaction.amount = text]
  /\ UNCHANGED <<store, tzOffset, nextId, last, calls, refreshTrigger>>

SetDate(date) ==
  /\ screens' = [screens EXCEPT !.AddTransaction.date = date]
  /\ UNCHANGED <<store, tzOffset, nextId, last, calls, refreshTrigger>>

\* handleSubmit of the Add Transaction screen, with the addTransaction it awaits.
HandleSubmit ==
  LET form == screens.AddTransaction
      amount == ParseFloat(form.amount)
      x == Draft(form.type, form.category, amount,
                 IF Trim(form.description) = "" THEN UNDEFINED
                 ELSE Trim(form.description),
                 form.date)
      written == [x EXCEPT !.amount = JsonNumber(amount)]
  IN IF form.category = "" \/ form.amount = <<>> \/ form.date = NoDate
     THEN /\ last' = Done("handleSubmit", FALSE, "Please fill in all required fields")
          /\ UNCHANGED <<store, tzOffset, nextId, calls, refreshTrigger, screens>>
     ELSE IF AtMostZero(amount)
     THEN /\ last' = Done("handleSubmit", FALSE, "Amount must be greater than 0")
          /\ UNCHANGED <<store, tzOffset, nextId, calls, refreshTrigger, screens>>
     ELSE /\ store' = AddTransactionOn(store, written, GenId("tx", nextId.tx), tzOffset)
          /\ nextId' = [nextId EXCEPT !.tx = @ + 1]
          /\ screens' = [screens EXCEPT !.AddTransaction = BlankForm]
          /\ refreshTrigger' = TriggerRefresh(refreshTrigger)
          /\ last' = Done("handleSubmit", TRUE, x)
          /\ UNCHANGED <<tzOffset, calls>>

InitForm ==
  /\ store = EmptyStore
  /\ tzOffset = 0
  /\ nextId = [tx |-> 1, goal |-> 1, cat |-> 1]
  /\ last = NoOp
  /\ calls = NoCalls
  /\ refreshTrigger = 0
  /\ screens = [AddTransaction |-> BlankForm]

NextForm ==
  \/ \E cat \in FormCategories : SetCategory(cat)
  \/ \E text \in AmountTexts : SetAmount(text)
  \/ \E date \in FormDates : SetDate(date)
  \/ nextId.tx <= MaxFormTx /\ HandleSubmit

SpecForm == InitForm /\ [][NextForm]_vars

(***************************************************************************)
(* Claims about the Add Transaction form (SpecForm).                       *)
(***************************************************************************)
\* C27: every transaction that handleSubmit passes to addTransaction has a
\* numeric amount greater than 0, a non-empty category and a non-empty date,
\* whatever text is in the amount field.
C27_SubmitsPositiveAmounts ==
  last.op = "handleSubmit" /\ last.ok =>
    /\ last.ret.amount.kind = "number"
    /\ last.ret.amount.num > 0
    /\ last.ret.category # ""
    /\ last.ret.date # NoDate

\* The same for the texts that start with a number: it holds of these.
NumericTextsSubmitPositive ==
  last.op = "handleSubmit" /\ last.ok /\ last.ret.amount.kind = "number" =>
    /\ last.ret.amount.num > 0
    /\ last.ret.category # ""
    /\ last.ret.date # NoDate

(***************************************************************************)
(* SpecCategoryRace: from the first run, the categories key absent, a      *)
(* screen loads the categories while another caller loads, adds, renames   *)
(* and deletes categories, over a store that does not throw.               *)
(***************************************************************************)
MaxRaceCats == 1    \* categories added in one behaviour of the category race

RaceCategoryDrafts == {CategoryDraft("Gym", "expense", TRUE)}

RaceRenames == {CategoryUpdates(Given("Fitness"), NotGiven)}

RaceCategoryIds == {GenId("cat", n) : n \in 1..MaxRaceCats}

InitCategoryRace == InitIn({0})

NextCategoryRace ==
  \/ \E w \in Callers : StartGetCategories(w)
  \/ \E c \in RaceCategoryDrafts : nextId.cat <= MaxRaceCats /\ StartAddCategory(2, c)
  \/ \E id \in RaceCategoryIds, u \in RaceRenames : StartUpdateCategory(2, id, u)
  \/ \E id \in RaceCategoryIds : StartDeleteCategory(2, id)
  \/ \E w \in Callers : GetItemCategories(w, FALSE)
  \/ \E w \in Callers : SetItemDefaultCategories(w, FALSE)
  \/ GetItemTransactions(2, FALSE)
  \/ SetItemTransactions(2, FALSE)
  \/ GetItemGoals(2, FALSE)
  \/ SetItemGoals(2, FALSE)
  \/ SetItemCategories(2, FALSE)

SpecCategoryRace == InitCategoryRace /\ [][NextCategoryRace]_vars

(***************************************************************************)
(* Claims about getCategories beside a category change (SpecCategoryRace). *)
(***************************************************************************)
\* The stored list shows the change of the call c.
ChangeStored(c) ==
  /\ store.cats.has
  /\ CASE c.op = "addCategory" ->
            \E cat \in Range(store.cats.items) : cat = NewCategory(c.arg, c.id, c.now)
       [] c.op = "updateCategory" ->
            \E cat \in Range(store.cats.items) : cat.id = c.id /\ cat.name = c.to
       [] c.op = "deleteCategory" ->
            \A cat \in Range(store.cats.items) : cat.id # c.id
       [] OTHER -> TRUE

NoDuplicateIds(items) ==
  \A i, j \in 1..Len(items) : items[i].id = items[j].id => i = j

\* C30 as stated: while the last category change of the second caller stands
\* reported as successful, the stored list shows it, whatever getCategories
\* calls ran beside it; and the stored list never holds an id twice.
C30_GetCategoriesIsARead ==
  /\ (/\ Settled(2)
      /\ calls[2].ok
      /\ calls[2].op \in {"addCategory", "updateCategory", "deleteCategory"})
     => ChangeStored(calls[2])
  /\ NoDuplicateIds(store.cats.items)

(***************************************************************************)
(* SpecUI: the screens under the DataProvider.  The Transactions tab and   *)
(* the Budget Goals tab are mounted and reload when refreshTrigger has     *)
(* changed since their last load; the Add Transaction form, the two tabs   *)
(* and the Settings screen change the store.  The store does not throw.    *)
(***************************************************************************)
MaxUITx == 1      \* transactions submitted in one behaviour of the screens
MaxUIGoals == 1   \* goals saved in one behaviour of the screens

\* selectedMonth and selectedYear of both tabs: the current month.
SelectedPeriod == <<1, 2024>>

\* A tab before its first effect has run.
NotLoaded == -1

TransactionsTab == [transactions |-> <<>>, loadedFor |-> NotLoaded]
BudgetGoalsTab == [goals |-> <<>>, categories |-> <<>>, loadedFor |-> NotLoaded]

UIAmountTexts == {<<"1", "2">>}
UIGoalDrafts == {GoalDraft("Gym", 100, "monthly", TRUE)}

\* useEffect(() => { loadTransactions() }, [selectedMonth, selectedYear, refreshTrigger])
LoadTransactions ==
  /\ screens.Transactions.loadedFor # refreshTrigger
  /\ screens' = [screens EXCEPT !.Transactions =
                   [transactions |-> GetTransactionsOf(store, SelectedPeriod[1],
                                                       SelectedPeriod[2], tzOffset),
                    loadedFor |-> refreshTrigger]]
  /\ UNCHANGED <<store, tzOffset, nextId, last, calls, refreshTrigger>>

\* useEffect(() => { loadData() }, [selectedMonth, selectedYear, refreshTrigger]):
\* getBudgetGoals, getTransactionStats and getCategories, which seeds the list.
LoadData ==
  LET categoriesData == GetCategoriesOn(store, nextId.cat)
  IN /\ screens.BudgetGoals.loadedFor # refreshTrigger
     /\ store' = categoriesData.store
     /\ screens' = [screens EXCEPT !.BudgetGoals =
                      [goals |-> GetBudgetGoalsOf(store),
                       categories |-> categoriesData.ret,
                       loadedFor |-> refreshTrigger]]
     /\ UNCHANGED <<tzOffset, nextId, last, calls, refreshTrigger>>

\* The Delete button of the alert of TransactionsScreen.deleteTransaction(id).
PressDeleteTransaction(id) ==
  /\ store' = DeleteTransactionOn(store, id, tzOffset)
  /\ refreshTrigger' = TriggerRefresh(refreshTrigger)
  /\ last' = Done("deleteTransaction", TRUE, UNDEFINED)
  /\ UNCHANGED <<tzOffset, nextId, calls, screens>>

\* handleSaveGoal with no goal being edited and a form that passes its checks.
HandleSaveGoal(g) ==
  /\ store' = AddBudgetGoalOn(store, g, GenId("goal", nextId.goal), nextId.goal)
  /\ nextId' = [nextId EXCEPT !.goal = @ + 1]
  /\ refreshTrigger' = TriggerRefresh(refreshTrigger)
  /\ last' = Done("handleSaveGoal", TRUE, UNDEFINED)
  /\ UNCHANGED <<tzOffset, calls, screens>>

HandleToggleGoal(goal) ==
  /\ store' = UpdateBudgetGoalOn(store, goal.id,
                                 GoalUpdates(NotGiven, NotGiven, NotGiven,
                                             Given(~goal.isActive)))
  /\ refreshTrigger' = TriggerRefresh(refreshTrigger)
  /\ last' = Done("handleToggleGoal", TRUE, UNDEFINED)
  /\ UNCHANGED <<tzOffset, nextId, calls, screens>>

\* The Delete button of the alert of handleDeleteGoal(goal).
HandleDeleteGoal(goal) ==
  /\ store' = DeleteBudgetGoalOn(store, goal.id)
  /\ refreshTrigger' = TriggerRefresh(refreshTrigger)
  /\ last' = Done("handleDeleteGoal", TRUE, UNDEFINED)
  /\ UNCHANGED <<tzOffset, nextId, calls, screens>>

\* The Clear All Data button of the alert of SettingsScreen.handleClearData:
\* clearAllData, the removal of the preference keys, navigation to Home.
HandleClearData ==
  /\ store' = ClearAllDataUnder(store, {}).store
  /\ last' = Done("handleClearData", TRUE, UNDEFINED)
  /\ UNCHANGED <<tzOffset, nextId, calls, refreshTrigger, screens>>

InitUI ==
  /\ store = EmptyStore
  /\ tzOffset = 0
  /\ nextId = [tx |-> 1, goal |-> 1, cat |-> 1]
  /\ last = NoOp
  /\ calls = NoCalls
  /\ refreshTrigger = 0
  /\ screens = [AddTransaction |-> BlankForm,
                Transactions |-> TransactionsTab,
                BudgetGoals |-> BudgetGoalsTab]

NextUI ==
  \/ LoadTransactions
  \/ LoadData
  \/ \E cat \in FormCategories : SetCategory(cat)
  \/ \E text \in UIAmountTexts : SetAmount(text)
  \/ nextId.tx <= MaxUITx /\ refreshTrigger < MaxRefresh /\ HandleSubmit
  \/ \E t \in Range(screens.Transactions.transactions) :
       refreshTrigger < MaxRefresh /\ PressDeleteTransaction(t.id)
  \/ \E g \in UIGoalDrafts :
       nextId.goal <= MaxUIGoals /\ refreshTrigger < MaxRefresh /\ HandleSaveGoal(g)
  \/ \E goal \in Range(screens.BudgetGoals.goals) :
       refreshTrigger < MaxRefresh /\ HandleToggleGoal(goal)
  \/ \E goal \in Range(screens.BudgetGoals.goals) :
       refreshTrigger < MaxRefresh /\ HandleDeleteGoal(goal)
  \/ HandleClearData

SpecUI == InitUI /\ [][NextUI]_vars

(***************************************************************************)
(* Claims about the refresh signal (SpecUI).                               *)
(***************************************************************************)
\* Every effect on refreshTrigger has run.
AllReloaded ==
  /\ screens.Transactions.loadedFor = refreshTrigger
  /\ screens.BudgetGoals.loadedFor = refreshTrigger

\* Each tab shows what is stored.
ShowsStore ==
  /\ screens.Transactions.transactions
       = GetTransactionsOf(store, SelectedPeriod[1], SelectedPeriod[2], tzOffset)
  /\ screens.BudgetGoals.goals = GetBudgetGoalsOf(store)

\* C26 as stated: every successful change of the stored data made from a
\* screen is followed by a refresh signal, so once the mounted tabs have
\* reloaded for the current refreshTrigger none of them shows data that is no
\* longer stored.
C26_RefreshAfterMutation == AllReloaded => ShowsStore

====
